---- MODULE Spec2Model ----
(***************************************************************************)
(* A model of the nickel source cache (core/src/cache_new.rs), of the git  *)
(* realisation protocol and of the lockfile resolver (package/src), and of *)
(* the package lookup of the evaluator (core/src/package.rs), of the term   *)
(* traversals (core/src/term/mod.rs) and of the pattern compiler           *)
(* (core/src/term/pattern/compile.rs).                                     *)
(*                                                                         *)
(* Each subsystem has its own specification over its own variables; the    *)
(* variables of the other subsystems stay at their initial value.          *)
(***************************************************************************)
EXTENDS Integers, Sequences, FiniteSets, TLC

VARIABLES
    \* ---- SourceCache (cache_new.rs:30-38)
    sources,          \* Files<Source>: FileId (1-based index) -> source text
    by_path,          \* HashMap<SourcePath, CacheKey>
    entries,          \* Vec<CacheEntry>; CacheKey k addresses entries[k] (Vec index k-1)
    next_generated,   \* usize counter of insert_generated
    ret,              \* the CacheKey returned by the last cache call (0: it returned none)
    last,             \* the last cache call: its name, arguments and what it found
    issued,           \* SourcePath -> the key the first insert on it returned
    pc,               \* position of the insert call in progress (stepwise specification)
    cur,              \* arguments of the insert call in progress
    imports,          \* CacheKey -> set of CacheKeys its term imports (pipeline)
    \* ---- the git cache directory shared by the sessions of a machine
    fs,               \* directory -> "absent" | "empty" | "partial" | "complete"
    gpc,              \* session -> position in Spec::realize
    gurl,             \* session -> the url of the git spec it realises
    gres,             \* session -> what its last realize returned
    \* ---- the package resolver: one project and the files it reads
    world,            \* directory -> the dependencies its package.ncl declares
    project,          \* the project's ManifestFile
    disk_lock,        \* the LockFile in package.lock next to the manifest, or None
    cache_trees,      \* the trees fetched into the cache directory
    lres,             \* the last resolver call: its arguments and its result
    \* ---- Traverse::traverse and Traverse::traverse_ref on one term
    theap,            \* address of an Rc<Term> allocation -> the term it holds
    targ,             \* the arguments of the call: the term, the order, what f does
    rootp,            \* the allocation the local `root` points to
    todo,             \* the work stack of slots (traverse) or nodes (traverse_ref)
    todo_i,           \* the stack of instructions, in step with todo
    todo_s,           \* the stack of scopes of traverse_ref, in step with todo
    applied,          \* the calls of f so far, in order
    clones,           \* the allocations Rc::make_mut copied
    tres,             \* what the call returned
    \* ---- one pattern compiled and evaluated on one value
    ppat,             \* the pattern
    pval,             \* the value matched on
    pres,             \* what the compiled pattern evaluates to on pval and {}
    mres,             \* what the compiled match expression does
    \* ---- the typechecking of the patterns of one match expression
    mbranches,        \* the patterns of the branches
    utable,           \* the unification table: variable -> its assignment
    enum_open_tails,  \* the (path, tail) of the enum patterns elaborated so far
    wildcard_occurrences, \* the paths of the wildcards elaborated so far
    mtyp,             \* the types of the branches elaborated so far
    mpc,              \* the position in the typechecking of the match
    table_before,     \* the table when close_enums was entered
    \* ---- ObjectId and its text
    oid,              \* the object id: ID_LEN bytes
    oid_text,         \* the text displayed for it, or a text from elsewhere
    oid_parsed,       \* what parsing the text gave
    opc,              \* where the text came from
    \* ---- MergePriority comparisons
    prio,             \* three merge priorities
    prio_cmp,         \* cmp of every pair of them
    prio_eq,          \* == of every pair of them
    \* ---- make::static_access
    sa_record,        \* the record term of the call
    sa_fields,        \* the fields of the call
    sa_term           \* the term the call returned

cacheVars ==
    <<sources, by_path, entries, next_generated, ret, last, issued, pc, cur, imports>>

gitVars == <<fs, gpc, gurl, gres>>

lockVars == <<world, project, disk_lock, cache_trees, lres>>

travVars == <<theap, targ, rootp, todo, todo_i, todo_s, applied, clones, tres>>

patVars == <<ppat, pval, pres, mres>>

typeVars ==
    <<mbranches, utable, enum_open_tails, wildcard_occurrences, mtyp, mpc, table_before>>

oidVars == <<oid, oid_text, oid_parsed, opc>>

prioVars == <<prio, prio_cmp, prio_eq>>

saVars == <<sa_record, sa_fields, sa_term>>

vars == <<cacheVars, gitVars, lockVars, travVars, patVars, typeVars, oidVars, prioVars, saVars>>

\* What an action of one subsystem leaves alone.
notCache == <<gitVars, lockVars, travVars, patVars, typeVars, oidVars, prioVars, saVars>>

notGit == <<cacheVars, lockVars, travVars, patVars, typeVars, oidVars, prioVars, saVars>>

notLock == <<cacheVars, gitVars, travVars, patVars, typeVars, oidVars, prioVars, saVars>>

notTraverse == <<cacheVars, gitVars, lockVars, patVars, typeVars, oidVars, prioVars, saVars>>

notPattern == <<cacheVars, gitVars, lockVars, travVars, typeVars, oidVars, prioVars, saVars>>

notTypes == <<cacheVars, gitVars, lockVars, travVars, patVars, oidVars, prioVars, saVars>>

notObjectId == <<cacheVars, gitVars, lockVars, travVars, patVars, typeVars, prioVars, saVars>>

notPriority == <<cacheVars, gitVars, lockVars, travVars, patVars, typeVars, oidVars, saVars>>

notStaticAccess == <<cacheVars, gitVars, lockVars, travVars, patVars, typeVars, oidVars, prioVars>>

\* ------------------------------------------------------------------------
\* Bounds and input sets
\* ------------------------------------------------------------------------

\* Largest number of cache entries the model lets a session create.
MaxEntries == 2

\* Largest number of insert_generated calls the model lets a session make.
MaxGenerated == 1

\* Source texts handed to insert.
Sources == {"s1", "s2"}

\* SourcePath values: real paths and the GeneratedByEvaluation(n) family.
FilePaths == {[kind |-> "Path", n |-> 1], [kind |-> "Path", n |-> 2]}

GeneratedByEvaluation(n) == [kind |-> "GeneratedByEvaluation", n |-> n]

SourcePaths == FilePaths \cup {GeneratedByEvaluation(n) : n \in 0..(MaxGenerated - 1)}

\* SourceState, in the order of the pipeline (cache_new.rs:52-71).
StateOrder ==
    <<"Added", "Parsed", "ImportsResolving", "ImportsResolved",
      "Typechecking", "Typechecked", "Transforming", "Transformed">>

SourceState == {StateOrder[i] : i \in 1..Len(StateOrder)}

Rank(st) == CHOOSE i \in 1..Len(StateOrder) : StateOrder[i] = st

\* The states a caller of get_mut writes in the cache specification.
GetMutStates == {"Parsed", "Transformed"}

None == [none |-> TRUE]

\* Outcomes of a call that are not a value: nothing returned yet, and a panic.
NoResult == [kind |-> "NoResult"]

Panic == [kind |-> "Panic"]

\* ------------------------------------------------------------------------
\* SourceCache as a value, and its operations as functions on that value
\* ------------------------------------------------------------------------

Cache == [sources |-> sources, by_path |-> by_path, entries |-> entries,
          next_generated |-> next_generated]

SourceCache_new ==
    [sources |-> <<>>, by_path |-> <<>>, entries |-> <<>>, next_generated |-> 0]

\* find: by_path.get(path).copied()
find(c, path) ==
    IF path \in DOMAIN c.by_path THEN c.by_path[path] ELSE None

\* get: entries.get(key - 1).expect(..); a key outside the vector panics.
get(c, key) ==
    IF key \in 1..Len(c.entries) THEN c.entries[key] ELSE [panic |-> TRUE]

\* source: sources.source(file_id(key))
source(c, key) == c.sources[c.entries[key].source]

\* The two writes of the occupied branch of insert, in program order:
\*   1: sources.update(entry.source, source)    2: entry.state = Added
InsertOccupiedStep_NoReset(c, path, src, step) ==
    LET cache_key == c.by_path[path]
        entry     == c.entries[cache_key]
    IN  CASE step = 1 -> [c EXCEPT !.sources[entry.source] = src]
          [] step = 2 -> c

InsertOccupiedStep(c, path, src, step) ==
    LET cache_key == c.by_path[path]
        entry     == c.entries[cache_key]
    IN  CASE step = 1 -> [c EXCEPT !.sources[entry.source] = src]
          [] step = 2 -> [c EXCEPT !.entries[cache_key].state = "Added"]

InsertOccupied(c, path, src) ==
    LET c1 == InsertOccupiedStep(c, path, src, 1)
        c2 == InsertOccupiedStep(c1, path, src, 2)
    IN  [cache |-> c2, key |-> c.by_path[path]]

\* The three writes of the vacant branch of insert, in program order:
\*   1: sources.add    2: entries.push    3: e.insert(cache_key)
InsertVacantStep_IndexFirst(c, path, src, step) ==
    CASE step = 1 -> [c EXCEPT !.by_path =
                         [p \in DOMAIN c.by_path \cup {path} |->
                             IF p = path THEN Len(c.entries) + 1 ELSE c.by_path[p]]]
      [] step = 2 -> [c EXCEPT !.sources = Append(c.sources, src)]
      [] step = 3 -> [c EXCEPT !.entries =
                         Append(c.entries, [state  |-> "Added",
                                            path   |-> path,
                                            source |-> Len(c.sources)])]

InsertVacantStep_ZeroBasedKey(c, path, src, step) ==
    CASE step = 1 -> [c EXCEPT !.sources = Append(c.sources, src)]
      [] step = 2 -> [c EXCEPT !.entries =
                         Append(c.entries, [state  |-> "Added",
                                            path   |-> path,
                                            source |-> Len(c.sources)])]
      [] step = 3 -> [c EXCEPT !.by_path =
                         [p \in DOMAIN c.by_path \cup {path} |->
                             IF p = path THEN Len(c.entries) - 1 ELSE c.by_path[p]]]

InsertVacantStep(c, path, src, step) ==
    CASE step = 1 -> [c EXCEPT !.sources = Append(c.sources, src)]
      [] step = 2 -> [c EXCEPT !.entries =
                         Append(c.entries, [state  |-> "Added",
                                            path   |-> path,
                                            source |-> Len(c.sources)])]
      [] step = 3 -> [c EXCEPT !.by_path =
                         [p \in DOMAIN c.by_path \cup {path} |->
                             IF p = path THEN Len(c.entries) ELSE c.by_path[p]]]

\* The key the vacant branch returns: NonZeroUsize::new(self.entries.len()) after the push.
InsertVacant(c, path, src) ==
    LET c1 == InsertVacantStep(c, path, src, 1)
        c2 == InsertVacantStep(c1, path, src, 2)
        c3 == InsertVacantStep(c2, path, src, 3)
    IN  [cache |-> c3, key |-> Len(c.entries) + 1]

\* The mutant: insert takes the vacant branch for every path.
insert_AlwaysVacant(c, path, src) == InsertVacant(c, path, src)

\* insert: match self.by_path.entry(path)
insert(c, path, src) ==
    IF path \in DOMAIN c.by_path
    THEN InsertOccupied(c, path, src)
    ELSE InsertVacant(c, path, src)

\* insert_generated: fresh GeneratedByEvaluation path, counter bumped, then insert.
insert_generated(c, src) ==
    LET path == GeneratedByEvaluation(c.next_generated)
    IN  insert([c EXCEPT !.next_generated = c.next_generated + 1], path, src)

\* get_mut hands out the state slot of the entry; the caller writes st into it.
get_mut_write(c, key, st) == [c EXCEPT !.entries[key].state = st]

SetCache(c) ==
    /\ sources' = c.sources
    /\ by_path' = c.by_path
    /\ entries' = c.entries
    /\ next_generated' = c.next_generated

NoCall == [op |-> "new", path |-> None, src |-> "", occupied |-> FALSE,
           prev |-> "Added", prev_src |-> ""]

\* What a call of insert on (path, src) finds, recorded before it runs.
CallRecord(op, path, src) ==
    LET seen == path \in DOMAIN issued
    IN  [op |-> op, path |-> path, src |-> src, occupied |-> seen,
         prev |-> IF seen /\ issued[path] \in 1..Len(entries)
                  THEN entries[issued[path]].state ELSE "Added",
         prev_src |-> IF seen /\ issued[path] \in 1..Len(entries)
                      THEN sources[entries[issued[path]].source] ELSE ""]

\* The key a path was given by the first insert that returned for it.
Issue(path, key) ==
    IF path \in DOMAIN issued
    THEN issued
    ELSE [p \in DOMAIN issued \cup {path} |-> IF p = path THEN key ELSE issued[p]]

CacheInit ==
    /\ sources = SourceCache_new.sources
    /\ by_path = SourceCache_new.by_path
    /\ entries = SourceCache_new.entries
    /\ next_generated = SourceCache_new.next_generated
    /\ ret = 0
    /\ last = NoCall
    /\ issued = <<>>
    /\ pc = "idle"
    /\ cur = None
    /\ imports = <<>>

\* ------------------------------------------------------------------------
\* Specification of the cache: whole calls
\* ------------------------------------------------------------------------

Insert(path, src) ==
    /\ UNCHANGED notCache
    /\ pc = "idle"
    /\ path \in DOMAIN by_path \/ Len(entries) < MaxEntries
    /\ LET r == insert(Cache, path, src)
       IN  /\ SetCache(r.cache)
           /\ ret' = r.key
           /\ last' = CallRecord("insert", path, src)
           /\ issued' = Issue(path, r.key)
    /\ UNCHANGED <<pc, cur, imports>>

InsertGenerated(src) ==
    /\ UNCHANGED notCache
    /\ pc = "idle"
    /\ next_generated < MaxGenerated
    /\ LET path == GeneratedByEvaluation(next_generated)
           r    == insert_generated(Cache, src)
       IN  /\ path \in DOMAIN by_path \/ Len(entries) < MaxEntries
           /\ SetCache(r.cache)
           /\ ret' = r.key
           /\ last' = CallRecord("insert_generated", path, src)
           /\ issued' = Issue(path, r.key)
    /\ UNCHANGED <<pc, cur, imports>>

GetMut(key, st) ==
    /\ UNCHANGED notCache
    /\ pc = "idle"
    /\ key \in 1..Len(entries)
    /\ entries[key].state # st
    /\ SetCache(get_mut_write(Cache, key, st))
    /\ ret' = 0
    /\ last' = [NoCall EXCEPT !.op = "get_mut"]
    /\ UNCHANGED <<issued, pc, cur, imports>>

CacheNext ==
    \/ \E path \in SourcePaths, src \in Sources : Insert(path, src)
    \/ \E src \in Sources : InsertGenerated(src)
    \/ \E key \in 1..MaxEntries, st \in GetMutStates : GetMut(key, st)


\* C1: insert(P, S1) followed later by insert(P, S2), with any get_mut writes
\* in between, returns the same CacheKey both times; after the second call the
\* entry's state is Added, its stored source is S2, and find(P) is that key.
C1_ReinsertKeepsKey ==
    (last.op = "insert" /\ last.occupied) =>
        /\ ret = issued[last.path]
        /\ get(Cache, ret).state = "Added"
        /\ source(Cache, ret) = last.src
        /\ find(Cache, last.path) = ret

\* A second insert on a path whose entry had been advanced to Transformed and
\* held another source.
C1_Witness ==
    /\ last.op = "insert" /\ last.occupied
    /\ last.prev = "Transformed"
    /\ last.prev_src = "s1" /\ last.src = "s2"
    /\ ret = issued[last.path]

\* C2: after insert(P, S) on a path not yet in the cache, find(P) is exactly
\* the key insert returned, get(key) has origin path P and state Added; find on
\* a path that was never inserted is None.
C2_InsertAndFind ==
    /\ (last.op = "insert" /\ ~last.occupied) =>
           /\ find(Cache, last.path) = ret
           /\ get(Cache, ret).path = last.path
           /\ get(Cache, ret).state = "Added"
    /\ \A p \in SourcePaths \ DOMAIN issued : find(Cache, p) = None

\* A first insert on a path, made when the cache already held another entry
\* and some path was still unknown to it.
C2_Witness ==
    /\ last.op = "insert" /\ ~last.occupied
    /\ ret = 2
    /\ find(Cache, last.path) = 2
    /\ \E p \in SourcePaths : p \notin DOMAIN issued

\* The keys insert and insert_generated have returned so far.
IssuedKeys == {issued[p] : p \in DOMAIN issued}

\* C27: after any sequence of insert and insert_generated calls by_path and
\* entries are in bijection: by_path is injective, it has as many bindings as
\* there are entries, every key is in 1..len(entries) (never 0) and the entry
\* at key - 1 has the bound path as its origin; get, get_mut, file_id and
\* source find their entry for every key that was returned.
C27_IndexBijection ==
    /\ \A p, q \in DOMAIN by_path : by_path[p] = by_path[q] => p = q
    /\ Cardinality(DOMAIN by_path) = Len(entries)
    /\ \A p \in DOMAIN by_path :
          /\ by_path[p] # 0
          /\ by_path[p] \in 1..Len(entries)
          /\ entries[by_path[p]].path = p
    /\ \A key \in IssuedKeys \cup ({ret} \ {0}) :
          /\ get(Cache, key) # [panic |-> TRUE]
          /\ entries[key].source \in 1..Len(sources)

\* Two entries, the second inserted by insert_generated, and the last call an
\* insert that found its path in the cache.
C27_Witness ==
    /\ Len(entries) = 2
    /\ entries[2].path.kind = "GeneratedByEvaluation"
    /\ entries[1].path.kind = "Path"
    /\ last.op = "insert" /\ last.occupied
    /\ Cardinality(DOMAIN by_path) = 2

\* A call of insert_generated returns a key that no call returned before and
\* leaves the state and the source of every entry there was as they were.
InsertGeneratedIsFresh ==
    (next_generated' = next_generated + 1) =>
        /\ ret' \notin IssuedKeys
        /\ \A key \in 1..Len(entries) :
              /\ entries'[key].state = entries[key].state
              /\ sources'[entries'[key].source] = sources[entries[key].source]

\* C28: under any interleaving of insert on arbitrary paths, the
\* GeneratedByEvaluation paths included, and insert_generated, every
\* insert_generated returns a key different from every key handed out before
\* and neither resets the state nor replaces the source of an entry.
C28_GeneratedKeysFresh == [][InsertGeneratedIsFresh]_cacheVars

\* ------------------------------------------------------------------------
\* Specification of the cache: insert one write at a time, with cancellation
\* ------------------------------------------------------------------------

\* insert is entered: the by_path.entry(path) match picks the branch.
StepBegin(path, src) ==
    /\ UNCHANGED notCache
    /\ pc = "idle"
    /\ path \in DOMAIN by_path \/ (Len(entries) < MaxEntries /\ Len(sources) < MaxEntries + 1)
    /\ pc' = IF path \in DOMAIN by_path THEN "update" ELSE "add"
    /\ cur' = [path |-> path, src |-> src]
    /\ last' = CallRecord("insert_begin", path, src)
    /\ UNCHANGED <<sources, by_path, entries, next_generated, ret, issued, imports>>

\* Vacant branch, line 134: self.sources.add(..)
StepAdd ==
    /\ UNCHANGED notCache
    /\ pc = "add"
    /\ SetCache(InsertVacantStep(Cache, cur.path, cur.src, 1))
    /\ pc' = "push"
    /\ UNCHANGED <<ret, last, issued, cur, imports>>

\* Vacant branch, lines 135-139: self.entries.push(..)
StepPush ==
    /\ UNCHANGED notCache
    /\ pc = "push"
    /\ SetCache(InsertVacantStep(Cache, cur.path, cur.src, 2))
    /\ pc' = "index"
    /\ UNCHANGED <<ret, last, issued, cur, imports>>

\* Vacant branch, lines 140-145: e.insert(cache_key); the call returns.
StepIndex ==
    /\ UNCHANGED notCache
    /\ pc = "index"
    /\ SetCache(InsertVacantStep(Cache, cur.path, cur.src, 3))
    /\ ret' = by_path'[cur.path]
    /\ issued' = Issue(cur.path, by_path'[cur.path])
    /\ last' = [last EXCEPT !.op = "insert"]
    /\ pc' = "idle"
    /\ cur' = None
    /\ UNCHANGED imports

\* Occupied branch, line 129: self.sources.update(..)
StepUpdate ==
    /\ UNCHANGED notCache
    /\ pc = "update"
    /\ SetCache(InsertOccupiedStep(Cache, cur.path, cur.src, 1))
    /\ pc' = "reset"
    /\ UNCHANGED <<ret, last, issued, cur, imports>>

\* Occupied branch, lines 130-131: entry.state = Added; the call returns.
StepReset ==
    /\ UNCHANGED notCache
    /\ pc = "reset"
    /\ SetCache(InsertOccupiedStep(Cache, cur.path, cur.src, 2))
    /\ ret' = by_path[cur.path]
    /\ last' = [last EXCEPT !.op = "insert"]
    /\ pc' = "idle"
    /\ cur' = None
    /\ UNCHANGED <<issued, imports>>

\* The call is abandoned between two of its writes; what it wrote stays.
Cancel ==
    /\ UNCHANGED notCache
    /\ pc \in {"add", "push", "index", "update", "reset"}
    /\ pc' = "idle"
    /\ cur' = None
    /\ last' = [NoCall EXCEPT !.op = "cancelled"]
    /\ UNCHANGED <<sources, by_path, entries, next_generated, ret, issued, imports>>

StepsNext ==
    \/ \E path \in FilePaths, src \in Sources : StepBegin(path, src)
    \/ StepAdd
    \/ StepPush
    \/ StepIndex
    \/ StepUpdate
    \/ StepReset
    \/ Cancel
    \/ \E key \in 1..MaxEntries : GetMut(key, "Transformed")


\* Every indexed path points to an entry that exists, carries that path and
\* refers to a source the file store holds.
IndexedEntriesPopulated ==
    \A p \in DOMAIN by_path :
        /\ by_path[p] \in 1..Len(entries)
        /\ entries[by_path[p]].path = p
        /\ entries[by_path[p]].source \in 1..Len(sources)

\* A step that binds a new path in by_path finds, before it runs, the entry
\* for the new key in the entries vector and the call's source in the store.
IndexedLast ==
    \A p \in SourcePaths :
        (p \notin DOMAIN by_path /\ p \in DOMAIN by_path') =>
            /\ cur # None /\ cur.path = p
            /\ by_path'[p] \in 1..Len(entries)
            /\ entries[by_path'[p]].path = p
            /\ entries[by_path'[p]].state = "Added"
            /\ entries[by_path'[p]].source \in 1..Len(sources)
            /\ sources[entries[by_path'[p]].source] = cur.src

\* C4: at every intermediate step of insert(P, S) for a new path P, by_path
\* maps P to a key only once the file store holds S and the entries vector
\* holds the entry for that key; interrupting insert at any step leaves no
\* indexed path pointing to a missing or half-populated entry.
C4_IndexAfterStore == [](IndexedEntriesPopulated) /\ [][IndexedLast]_cacheVars

\* An insert on a new path was abandoned after its push and before its index
\* write, and a later insert on a new path ran to its end.
C4_Witness ==
    /\ last.op = "insert" /\ ~last.occupied
    /\ Len(entries) > Cardinality(DOMAIN by_path)
    /\ Len(sources) >= Len(entries)
    /\ find(Cache, last.path) = ret

\* ------------------------------------------------------------------------
\* Specification of the pipeline over the cache (cache_new.rs:45-50)
\* ------------------------------------------------------------------------

\* Largest number of imports the model lets one source have.
MaxImports == 1

\* The paths of the sources the pipeline is run on, in the order in which the
\* session first inserts them (the paths are interchangeable).
PipelinePaths ==
    <<[kind |-> "Path", n |-> 1], [kind |-> "Path", n |-> 2], [kind |-> "Path", n |-> 3],
      [kind |-> "Path", n |-> 4]>>

ImportsOf(k) == IF k \in DOMAIN imports THEN imports[k] ELSE {}

RECURSIVE Reach(_)
Reach(set) ==
    LET more == set \cup UNION {ImportsOf(k) : k \in set}
    IN  IF more = set THEN set ELSE Reach(more)

\* The entry and every entry it transitively imports.
Closure(k) == Reach({k})

IsIng(st) == st \in {"ImportsResolving", "Typechecking", "Transforming"}

IsEd(st) == st \in {"ImportsResolved", "Typechecked", "Transformed"}

\* A promotion rule that looks at the entry alone and forgets its imports.
Promotable_SelfOnly(k) ==
    \A j \in {k} : Rank(entries[j].state) >= Rank(entries[k].state)

\* "Only when all the imports have been successfully processed, the state is
\* updated to XXXed": the entry and all its transitive imports are at XXXing
\* or beyond.
Promotable(k) ==
    \A j \in Closure(k) : Rank(entries[j].state) >= Rank(entries[k].state)

SetState(k, st) ==
    /\ UNCHANGED notCache
    /\ SetCache(get_mut_write(Cache, k, st))
    /\ ret' = 0
    /\ last' = [NoCall EXCEPT !.op = "get_mut"]
    /\ UNCHANGED <<issued, pc, cur>>

Parse(k) ==
    /\ k \in 1..Len(entries)
    /\ entries[k].state = "Added"
    /\ SetState(k, "Parsed")
    /\ UNCHANGED imports

\* The imports of the entry are resolved to cache keys; its own are done.
ResolveImports(k, deps) ==
    /\ k \in 1..Len(entries)
    /\ deps \subseteq (1..Len(entries)) \ {k}
    /\ Cardinality(deps) <= MaxImports
    /\ entries[k].state = "Parsed"
    /\ SetState(k, "ImportsResolving")
    /\ imports' = [j \in DOMAIN imports \cup {k} |-> IF j = k THEN deps ELSE imports[j]]

\* The entry itself has been processed in the next phase: XXXed -> YYYing.
BeginPhase(k) ==
    /\ k \in 1..Len(entries)
    /\ entries[k].state \in {"ImportsResolved", "Typechecked"}
    /\ SetState(k, StateOrder[Rank(entries[k].state) + 1])
    /\ UNCHANGED imports

\* XXXing -> XXXed.
FinishPhase(k) ==
    /\ k \in 1..Len(entries)
    /\ IsIng(entries[k].state)
    /\ Promotable(k)
    /\ SetState(k, StateOrder[Rank(entries[k].state) + 1])
    /\ UNCHANGED imports

PipelineNext ==
    \/ \E i \in 1..Len(PipelinePaths) :
          /\ i <= Len(entries) + 1
          /\ Insert(PipelinePaths[i], "s1")
    \/ \E k \in 1..MaxEntries : Parse(k)
    \/ \E k \in 1..MaxEntries, deps \in SUBSET (1..MaxEntries) : ResolveImports(k, deps)
    \/ \E k \in 1..MaxEntries : BeginPhase(k)
    \/ \E k \in 1..MaxEntries : FinishPhase(k)


NumSessions == 2

Sessions == 1..NumSessions

Urls == {"u1", "u2"}

\* repo.head().peel_to_commit().id() of the repository behind each url.
RepoHead(url) == IF url = "u1" THEN "t1" ELSE "t2"

Trees == {RepoHead(u) : u \in Urls}

\* tempdir_in(&cache_dir): a directory of the session's own in the cache root.
TmpDir(s) == [kind |-> "tmp", id |-> "", s |-> s]

\* source.local_path(): cache_dir.join(tree.to_string()).join("")
TargetDir(tree) == [kind |-> "tree", id |-> tree, s |-> 0]

Dirs == {TmpDir(s) : s \in Sessions} \cup {TargetDir(t) : t \in Trees}

GitSource(url) == [kind |-> "Git", repo |-> url, tree |-> RepoHead(url), path |-> <<>>]

\* A fetch that writes straight into the directory named by the object id.
CloneDir_Target(s) == TargetDir(RepoHead(gurl[s]))

\* Repository::clone_recurse(url, &tmp_dir): the directory the clone is written to.
CloneDir(s) == TmpDir(s)

GitInit ==
    /\ fs = [d \in Dirs |-> "absent"]
    /\ gpc = [s \in Sessions |-> "idle"]
    /\ gurl = [s \in Sessions |-> "u1"]
    /\ gres = [s \in Sessions |-> NoResult]

\* lines 202-204: create_dir_all(&cache_dir); tempdir_in(&cache_dir)
RealizeBegin(s, url) ==
    /\ UNCHANGED notGit
    /\ gpc[s] = "idle"
    /\ fs[TmpDir(s)] = "absent"
    /\ fs' = [fs EXCEPT ![TmpDir(s)] = "empty"]
    /\ gurl' = [gurl EXCEPT ![s] = url]
    /\ gpc' = [gpc EXCEPT ![s] = "clone"]
    /\ gres' = [gres EXCEPT ![s] = NoResult]

\* line 206: the clone has written part of the repository.
CloneStart(s) ==
    /\ UNCHANGED notGit
    /\ gpc[s] = "clone"
    /\ fs' = [fs EXCEPT ![CloneDir(s)] = "partial"]
    /\ gpc' = [gpc EXCEPT ![s] = "cloning"]
    /\ UNCHANGED <<gurl, gres>>

\* lines 206-215: the clone is complete and HEAD names the object id.
CloneFinish(s) ==
    /\ UNCHANGED notGit
    /\ gpc[s] = "cloning"
    /\ fs' = [fs EXCEPT ![CloneDir(s)] = "complete"]
    /\ gpc' = [gpc EXCEPT ![s] = "check"]
    /\ UNCHANGED <<gurl, gres>>

\* line 206: the clone fails, unwrap panics, unwinding drops (removes) the TempDir.
CloneFail(s) ==
    /\ UNCHANGED notGit
    /\ gpc[s] = "cloning"
    /\ fs' = [fs EXCEPT ![TmpDir(s)] = "absent"]
    /\ gpc' = [gpc EXCEPT ![s] = "idle"]
    /\ gres' = [gres EXCEPT ![s] = Panic]
    /\ UNCHANGED gurl

\* lines 217-218: path.is_dir() holds; the TempDir is dropped at the end of the arm.
CheckPresent(s) ==
    /\ UNCHANGED notGit
    /\ gpc[s] = "check"
    /\ fs[TargetDir(RepoHead(gurl[s]))] # "absent"
    /\ fs' = [fs EXCEPT ![TmpDir(s)] = "absent"]
    /\ gpc' = [gpc EXCEPT ![s] = "idle"]
    /\ gres' = [gres EXCEPT ![s] = GitSource(gurl[s])]
    /\ UNCHANGED gurl

\* lines 217-220: path.is_dir() fails; tmp_dir.into_path() keeps the directory.
CheckAbsent(s) ==
    /\ UNCHANGED notGit
    /\ gpc[s] = "check"
    /\ fs[TargetDir(RepoHead(gurl[s]))] = "absent"
    /\ gpc' = [gpc EXCEPT ![s] = "rename"]
    /\ UNCHANGED <<fs, gurl, gres>>

\* line 221: rename(tmp_dir, &path) moves the directory to a name that is free.
RenameOk(s) ==
    /\ UNCHANGED notGit
    /\ gpc[s] = "rename"
    /\ fs[TargetDir(RepoHead(gurl[s]))] = "absent"
    /\ fs' = [fs EXCEPT ![TargetDir(RepoHead(gurl[s]))] = fs[TmpDir(s)],
                        ![TmpDir(s)] = "absent"]
    /\ gpc' = [gpc EXCEPT ![s] = "idle"]
    /\ gres' = [gres EXCEPT ![s] = GitSource(gurl[s])]
    /\ UNCHANGED gurl

\* line 221: rename onto a directory that is not empty fails and unwrap panics;
\* the temporary directory, no longer a TempDir, stays.
RenameFails(s) ==
    /\ UNCHANGED notGit
    /\ gpc[s] = "rename"
    /\ fs[TargetDir(RepoHead(gurl[s]))] # "absent"
    /\ gpc' = [gpc EXCEPT ![s] = "dead"]
    /\ gres' = [gres EXCEPT ![s] = Panic]
    /\ UNCHANGED <<fs, gurl>>

\* The session's process is killed while it clones; nothing is cleaned up.
Killed(s) ==
    /\ UNCHANGED notGit
    /\ gpc[s] = "cloning"
    /\ gpc' = [gpc EXCEPT ![s] = "dead"]
    /\ gres' = [gres EXCEPT ![s] = [kind |-> "Killed"]]
    /\ UNCHANGED <<fs, gurl>>

GitNext ==
    \/ \E s \in Sessions, url \in Urls : RealizeBegin(s, url)
    \/ \E s \in Sessions : CloneStart(s)
    \/ \E s \in Sessions : CloneFinish(s)
    \/ \E s \in Sessions : CloneFail(s)
    \/ \E s \in Sessions : CheckPresent(s)
    \/ \E s \in Sessions : CheckAbsent(s)
    \/ \E s \in Sessions : RenameOk(s)
    \/ \E s \in Sessions : RenameFails(s)
    \/ \E s \in Sessions : Killed(s)

\* C5: while any number of sessions realise git sources concurrently, the
\* cache directory named by an object id either does not exist or holds a
\* complete clone.
C5_TargetAbsentOrComplete ==
    \A t \in Trees : fs[TargetDir(t)] \in {"absent", "complete"}

\* One session is in the middle of its clone while the directory of the same
\* object id, put there by another session, is in the cache.
C5_Witness ==
    \E s1 \in Sessions, s2 \in Sessions :
        /\ s1 # s2
        /\ gpc[s1] = "cloning" /\ fs[TmpDir(s1)] = "partial"
        /\ gurl[s1] = gurl[s2]
        /\ gres[s2] = GitSource(gurl[s2])
        /\ fs[TargetDir(RepoHead(gurl[s1]))] = "complete"

\* A session that leaves its directory check or its rename has returned the
\* locked source of its url, which is the same for every session with that url.
ChecksAndRenamesSucceed ==
    \A s \in Sessions :
        (gpc[s] \in {"check", "rename"} /\ gpc'[s] \notin {"check", "rename"}) =>
            gres'[s] = GitSource(gurl[s])

\* C29: two sessions that realise the same git source concurrently both
\* complete and return the same locked source, whatever the interleaving of
\* their directory checks and renames.
C29_ConcurrentRealizeSucceeds == [][ChecksAndRenamesSucceed]_gitVars

\* ------------------------------------------------------------------------
\* Paths (std::path) as a flag and a list of components
\* ------------------------------------------------------------------------

Abs(c) == [abs |-> TRUE, c |-> c]

Rel(c) == [abs |-> FALSE, c |-> c]

\* Path::is_absolute
is_absolute(p) == p.abs

\* Path::join: an absolute argument replaces the base.
join(base, p) == IF p.abs THEN p ELSE [abs |-> base.abs, c |-> base.c \o p.c]

RECURSIVE NormalizeComponents(_, _)
NormalizeComponents(comps, acc) ==
    IF comps = <<>> THEN acc
    ELSE LET h == comps[1]
             t == SubSeq(comps, 2, Len(comps))
         IN  CASE h = ".." -> NormalizeComponents(t,
                                  IF acc = <<>> THEN acc ELSE SubSeq(acc, 1, Len(acc) - 1))
               [] h = "."  -> NormalizeComponents(t, acc)
               [] OTHER    -> NormalizeComponents(t, Append(acc, h))

\* normalize_abs_path: lexical elimination of "." and "..", ".." at the root stays there.
normalize_abs_path(p) == [abs |-> p.abs, c |-> NormalizeComponents(p.c, <<>>)]

\* Path::strip_prefix: Ok(rest) when base is a prefix of p, component by component.
strip_prefix(p, base) ==
    IF /\ p.abs = base.abs
       /\ Len(base.c) <= Len(p.c)
       /\ SubSeq(p.c, 1, Len(base.c)) = base.c
    THEN [ok |-> TRUE, path |-> Rel(SubSeq(p.c, Len(base.c) + 1, Len(p.c)))]
    ELSE [ok |-> FALSE, path |-> p]

\* cache_dir(): the per-user cache directory of the application.
cache_dir == Abs(<<"cache">>)

\* The directory the process runs in; relative paths given to the file system
\* are resolved against it.
Cwd == Abs(<<"proj">>)

\* ------------------------------------------------------------------------
\* Package sources, locked sources, lock files (lib.rs, lock.rs)
\* ------------------------------------------------------------------------

Names == {"n1", "n2"}

\* PackageSource::Git { url }, PackageSource::Path { path }
PGit(url) == [kind |-> "Git", url |-> url, path |-> Rel(<<>>)]

PPath(path) == [kind |-> "Path", url |-> "", path |-> path]

\* LockedPackageSource::Git { repo, tree, path }, LockedPackageSource::Path { path }
LGit(repo, tree, path) == [kind |-> "Git", repo |-> repo, tree |-> tree, path |-> path]

LPath(path) == [kind |-> "Path", repo |-> "", tree |-> "", path |-> path]

\* LockedPackageSource::local_path
local_path(src) ==
    IF src.kind = "Git"
    THEN join(join(cache_dir, Rel(<<src.tree>>)), src.path)
    ELSE src.path

\* LockedPackageSource::repo_root
repo_root(src) ==
    IF src.kind = "Git" THEN join(cache_dir, Rel(<<src.tree>>)) ELSE None

\* LockFile::default()
EmptyLockFile == [dependencies |-> <<>>, packages |-> <<>>]

\* HashMap::insert: the binding of k is added or replaced.
MapInsert(f, k, v) == [x \in DOMAIN f \cup {k} |-> IF x = k THEN v ELSE f[x]]

\* A comparison of a path source with the locked path as the manifest wrote it.
matches_locked_Unjoined(self, manifest, locked) ==
    CASE self.kind = "Git" /\ locked.kind = "Git"   -> self.url = locked.repo
      [] self.kind = "Path" /\ locked.kind = "Path" ->
            manifest.parent_dir # None /\ self.path = locked.path
      [] OTHER -> FALSE

\* PackageSource::matches_locked
matches_locked(self, manifest, locked) ==
    CASE self.kind = "Git" /\ locked.kind = "Git"   -> self.url = locked.repo
      [] self.kind = "Path" /\ locked.kind = "Path" ->
            manifest.parent_dir # None /\ join(manifest.parent_dir, self.path) = locked.path
      [] OTHER -> FALSE

\* The names of a dependency map in the order an iteration of the HashMap
\* yields them; the order is not fixed by the program.
IterationOrder(deps, ord) ==
    LET asc == <<"n1", "n2">>
        seq == IF ord = "asc" THEN asc ELSE <<asc[2], asc[1]>>
    IN  SelectSeq(seq, LAMBDA n : n \in DOMAIN deps)

RECURSIVE AllMatch(_, _, _)
AllMatch(manifest, lock_file, names) ==
    IF names = <<>> THEN TRUE
    ELSE LET name == names[1]
             src  == manifest.dependencies[name]
         IN  /\ IF name \in DOMAIN lock_file.dependencies
                THEN matches_locked(src, manifest, lock_file.dependencies[name])
                ELSE FALSE
             /\ AllMatch(manifest, lock_file, SubSeq(names, 2, Len(names)))

\* ManifestFile::is_lock_file_up_to_date
is_lock_file_up_to_date(manifest, lock_file) ==
    AllMatch(manifest, lock_file, IterationOrder(manifest.dependencies, "asc"))

\* ------------------------------------------------------------------------
\* Manifests on the file system
\* ------------------------------------------------------------------------

\* The depth of nested realize_rec calls the model follows; there are fewer
\* manifests than this, so a deeper chain revisits one and never ends.
MaxDepth == 6

NoDeps == <<>>

ManifestFileName == Rel(<<"package.ncl">>)

\* Path::parent of a path with at least one component
parent(p) == [abs |-> p.abs, c |-> SubSeq(p.c, 1, Len(p.c) - 1)]

\* The manifests of the two repositories and of a directory next to the
\* project's manifest; a directory outside the domain holds no manifest.
RepoRootManifests ==
    { "n1" :> PPath(Rel(<<"a">>)),
      "n1" :> PPath(Rel(<<"..">>)),
      ("n1" :> PPath(Rel(<<"a">>))) @@ ("n2" :> PGit("u2")) }

Worlds ==
    { (<<"cache", "t1">> :> r1) @@ sub @@ (<<"cache", "t2">> :> r2) @@ pa :
        r1 \in RepoRootManifests,
        sub \in { <<"cache", "t1", "a">> :> NoDeps },
        r2 \in { NoDeps, "n1" :> PGit("u1") },
        pa \in { <<>>, <<"proj", "a">> :> NoDeps } }

\* The dependency maps the project's own manifest may declare.
TopDependencies ==
    { NoDeps,
      "n1" :> PGit("u1"),
      "n1" :> PGit("u2"),
      "n1" :> PPath(Rel(<<"a">>)),
      "n1" :> PPath(Abs(<<"proj", "a">>)),
      ("n1" :> PGit("u1")) @@ ("n2" :> PPath(Rel(<<"a">>))),
      ("n1" :> PGit("u1")) @@ ("n2" :> PGit("u1")) }

\* The project's manifest as from_path loads it: found from the current
\* directory (absolute) or named on the command line as "package.ncl".
TopManifests ==
    { [parent_dir |-> pd, dependencies |-> d] :
        pd \in { Abs(<<"proj">>), Rel(<<>>) }, d \in TopDependencies }

\* The package.ncl files there are: the project's own and those of the world.
Files(w, top) == (<<"proj">> :> top.dependencies) @@ w

\* ManifestFile::from_path: the file is opened as the OS resolves the path,
\* a missing file makes the unwrap panic.
from_path(w, top, path) ==
    LET dir   == parent(path)
        where == (IF is_absolute(dir) THEN dir ELSE join(Cwd, dir)).c
    IN  IF where \in DOMAIN Files(w, top)
        THEN [kind |-> "Ok",
              manifest |-> [parent_dir |-> dir, dependencies |-> Files(w, top)[where]]]
        ELSE Panic

\* ------------------------------------------------------------------------
\* Spec::realize, Spec::realize_rec, LockedSpec::flatten_into
\* ------------------------------------------------------------------------

\* ManifestFile::dependency_specs
dependency_specs(deps, ord) ==
    LET names == IterationOrder(deps, ord)
    IN  [i \in 1..Len(names) |-> [name |-> names[i], source |-> deps[names[i]]]]

\* Spec::realize; the clone and the rename are the git realisation above.
realize(spec) ==
    IF spec.source.kind = "Git"
    THEN LGit(spec.source.url, RepoHead(spec.source.url), Rel(<<>>))
    ELSE LPath(spec.source.path)

Fetched(spec) == IF spec.source.kind = "Git" THEN {RepoHead(spec.source.url)} ELSE {}

RestrictedPath(attempted, restriction) ==
    [kind |-> "RestrictedPath", attempted |-> attempted, restriction |-> restriction]

\* The place and the source of a path dependency of a package at `relative`.
ResolvePath(path, relative) ==
    LET p0 == join(local_path(relative), path)
        p  == normalize_abs_path(p0)
        r  == repo_root(relative)
        sp == strip_prefix(p, r)
    IN  IF ~is_absolute(p0) THEN Panic
        ELSE IF r # None
        THEN IF sp.ok
             THEN [kind |-> "Ok", abs_path |-> sp.path,
                   source |-> LGit(relative.repo, relative.tree, sp.path)]
             ELSE [kind |-> "Err", err |-> RestrictedPath(p, r)]
        ELSE [kind |-> "Ok", abs_path |-> p, source |-> LPath(p)]

RECURSIVE realize_rec(_, _, _, _, _, _)
RECURSIVE realize_all(_, _, _, _, _, _, _, _)

\* The collect over the dependency specs: the first failure ends it.
realize_all(w, top, specs, relative_to, ord, fuel, acc, fetched) ==
    IF specs = <<>> THEN [kind |-> "Ok", list |-> acc, fetched |-> fetched]
    ELSE LET r == realize_rec(w, top, specs[1], relative_to, ord, fuel)
         IN  IF r.kind = "Ok"
             THEN realize_all(w, top, SubSeq(specs, 2, Len(specs)), relative_to, ord, fuel,
                              Append(acc, r.spec), fetched \cup r.fetched)
             ELSE [r EXCEPT !.fetched = @ \cup fetched]

\* Spec::realize_rec
realize_rec(w, top, spec, relative_to, ord, fuel) ==
    LET source0 == realize(spec)
        got     == Fetched(spec)
        place   == IF source0.kind = "Git"
                   THEN [kind |-> "Ok", abs_path |-> join(local_path(source0), source0.path),
                         source |-> source0]
                   ELSE ResolvePath(source0.path, relative_to)
    IN  IF fuel = 0 THEN [kind |-> "Diverges", fetched |-> got]
        ELSE IF source0.kind = "Path" /\ relative_to = None
        THEN [kind |-> "Ok", fetched |-> got,
              spec |-> [name |-> spec.name, source |-> source0, dependencies |-> <<>>]]
        ELSE IF place.kind = "Panic" THEN [kind |-> "Panic", fetched |-> got]
        ELSE IF place.kind = "Err" THEN [kind |-> "Err", err |-> place.err, fetched |-> got]
        ELSE LET m == from_path(w, top, join(place.abs_path, ManifestFileName))
             IN  IF m.kind = "Panic" THEN [kind |-> "Panic", fetched |-> got]
                 ELSE LET ds == realize_all(w, top,
                                    dependency_specs(m.manifest.dependencies, ord),
                                    place.source, ord, fuel - 1, <<>>, got)
                      IN  IF ds.kind = "Ok"
                          THEN [kind |-> "Ok", fetched |-> ds.fetched,
                                spec |-> [name |-> spec.name, source |-> place.source,
                                          dependencies |-> ds.list]]
                          ELSE ds

\* The map a LockFileEntry keeps of its dependencies.
EntryDependencies(deps) ==
    [n \in {deps[i].name : i \in 1..Len(deps)} |->
        (CHOOSE i \in 1..Len(deps) :
            /\ deps[i].name = n
            /\ \A k \in (i + 1)..Len(deps) : deps[k].name # n) ]

RECURSIVE flatten_into(_, _)
RECURSIVE flatten_deps(_, _)

flatten_deps(deps, lock_file) ==
    IF deps = <<>> THEN lock_file
    ELSE flatten_deps(SubSeq(deps, 2, Len(deps)), flatten_into(deps[1], lock_file))

\* A flatten_into that records the package and leaves its dependencies out.
flatten_into_Shallow(self, lock_file) ==
    [lock_file EXCEPT !.packages =
        MapInsert(@, self.source,
                  [name |-> self.name,
                   dependencies |-> [n \in DOMAIN EntryDependencies(self.dependencies) |->
                                        self.dependencies[EntryDependencies(self.dependencies)[n]].source]])]

\* LockedSpec::flatten_into
flatten_into(self, lock_file) ==
    LET idx   == EntryDependencies(self.dependencies)
        entry == [name |-> self.name,
                  dependencies |-> [n \in DOMAIN idx |-> self.dependencies[idx[n]].source]]
    IN  flatten_deps(self.dependencies,
                     [lock_file EXCEPT !.packages = MapInsert(@, self.source, entry)])

\* ------------------------------------------------------------------------
\* ManifestFile::find_lockfile, ManifestFile::lock
\* ------------------------------------------------------------------------

\* ManifestFile::find_lockfile; `disk` is package.lock next to the manifest.
find_lockfile(manifest, disk) ==
    IF manifest.parent_dir = None \/ disk = None THEN None
    ELSE IF is_lock_file_up_to_date(manifest, disk) THEN disk ELSE None

RECURSIVE lock_loop(_, _, _, _, _, _)
lock_loop(w, manifest, specs, ord, lf, fetched) ==
    IF specs = <<>> THEN [kind |-> "Ok", lock |-> lf, fetched |-> fetched, written |-> TRUE]
    ELSE LET r == realize_rec(w, manifest, specs[1], None, ord, MaxDepth)
         IN  IF r.kind # "Ok" THEN [r EXCEPT !.fetched = @ \cup fetched]
             ELSE LET flat == flatten_into(r.spec, lf)
                  IN  lock_loop(w, manifest, SubSeq(specs, 2, Len(specs)), ord,
                                [flat EXCEPT !.dependencies =
                                    MapInsert(@, r.spec.name, r.spec.source)],
                                fetched \cup r.fetched)

\* ManifestFile::lock
lock(w, manifest, disk, ord) ==
    LET found == find_lockfile(manifest, disk)
    IN  IF found # None
        THEN [kind |-> "Ok", lock |-> found, fetched |-> {}, written |-> FALSE]
        ELSE lock_loop(w, manifest, dependency_specs(manifest.dependencies, ord), ord,
                       EmptyLockFile, {})

\* ------------------------------------------------------------------------
\* ResolvedLockFile::get (core/src/package.rs)
\* ------------------------------------------------------------------------

Positions == {"pos1", "pos2"}

MissingDependency(parent_pair, missing, pos) ==
    [kind |-> "MissingDependency", parent |-> parent_pair, missing |-> missing, pos |-> pos]

InternalError(msg, pos) == [kind |-> "InternalError", msg |-> msg, pos |-> pos]

\* A lookup that reads the top-level dependencies whatever the parent is.
lookup_TopLevelOnly(inner, parent_arg, pkg, pos) ==
    IF pkg \in DOMAIN inner.dependencies
    THEN [kind |-> "Ok", source |-> inner.dependencies[pkg]]
    ELSE MissingDependency(None, pkg, pos)

\* ResolvedLockFile::get
lookup(inner, parent_arg, pkg, pos) ==
    IF parent_arg # None /\ parent_arg \notin DOMAIN inner.packages
    THEN InternalError(parent_arg, pos)
    ELSE LET deps == IF parent_arg # None
                     THEN inner.packages[parent_arg].dependencies
                     ELSE inner.dependencies
             parent_name == IF parent_arg # None
                            THEN inner.packages[parent_arg].name
                            ELSE None
         IN  IF pkg \in DOMAIN deps
             THEN [kind |-> "Ok", source |-> deps[pkg]]
             ELSE MissingDependency(
                      IF parent_arg # None THEN <<parent_name, parent_arg>> ELSE None,
                      pkg, pos)

\* ------------------------------------------------------------------------
\* LockFile::resolve_package_map, LockedSpec::flatten_into_map
\* ------------------------------------------------------------------------

\* normalize_path: the path made absolute against the current directory and
\* normalised lexically.
normalize_path(p) == normalize_abs_path(IF is_absolute(p) THEN p ELSE join(Cwd, p))

\* LockedPackageSource::with_abs_path
with_abs_path(src, root) ==
    IF src.kind = "Git" THEN src ELSE LPath(normalize_abs_path(join(root, src.path)))

\* LockedPackageSource::is_path
is_path(src) == src.kind = "Path"

\* PackageMap { top_level, packages } with nothing in it
EmptyPackageMap == [top_level |-> <<>>, packages |-> <<>>]

\* HashMap::extend: the bindings of `more` are added, replacing those there.
MapExtend(f, more) == more @@ f

RECURSIVE flatten_into_map(_, _)
RECURSIVE flatten_deps_map(_, _)

flatten_deps_map(deps, package_map) ==
    IF deps = <<>> THEN package_map
    ELSE flatten_deps_map(SubSeq(deps, 2, Len(deps)), flatten_into_map(deps[1], package_map))

\* LockedSpec::flatten_into_map
flatten_into_map(self, package_map) ==
    LET idx  == EntryDependencies(self.dependencies)
        more == [k \in {<<local_path(self.source), n>> : n \in DOMAIN idx} |->
                    local_path(self.dependencies[idx[k[2]]].source)]
    IN  flatten_deps_map(self.dependencies,
                         [package_map EXCEPT !.packages = MapExtend(@, more)])

\* The packages of the lock file whose dependencies are passed through; a
\* variant that passes the dependencies of every key through.
PassedThrough_All(lock_file) == DOMAIN lock_file.packages

\* The keys of packages kept by the filter: those that are not paths.
PassedThrough(lock_file) == {s \in DOMAIN lock_file.packages : ~is_path(s)}

\* The collect over the dependencies of the packages passed through.
CollectPackages(lock_file) ==
    LET keys == {<<local_path(s), n>> :
                    s \in PassedThrough(lock_file), n \in Names}
        from(k) == {s \in PassedThrough(lock_file) :
                       local_path(s) = k[1] /\ k[2] \in DOMAIN lock_file.packages[s].dependencies}
    IN  [k \in {x \in keys : from(x) # {}} |->
            local_path(lock_file.packages[CHOOSE s \in from(k) : TRUE].dependencies[k[2]])]

RECURSIVE expand_path_deps(_, _, _, _, _, _, _, _)
\* The loop over the path dependencies of the root: each is realised relative
\* to the root and flattened into the map; the first failure ends it.
expand_path_deps(w, top, lock_file, names, root, ord, package_map, fetched) ==
    IF names = <<>> THEN [kind |-> "Ok", map |-> package_map, fetched |-> fetched]
    ELSE LET s    == with_abs_path(lock_file.dependencies[names[1]], root)
             rest == SubSeq(names, 2, Len(names))
         IN  IF ~is_path(s)
             THEN expand_path_deps(w, top, lock_file, rest, root, ord, package_map, fetched)
             ELSE LET spec == [name |-> names[1], source |-> PPath(s.path)]
                      r    == realize_rec(w, top, spec, LPath(root), ord, MaxDepth)
                  IN  IF r.kind # "Ok" THEN [r EXCEPT !.fetched = @ \cup fetched]
                      ELSE expand_path_deps(w, top, lock_file, rest, root, ord,
                                            flatten_into_map(r.spec, package_map),
                                            fetched \cup r.fetched)

\* LockFile::resolve_package_map
resolve_package_map(w, top, lock_file, root_path, ord) ==
    LET root == normalize_path(root_path)
        init == [top_level |-> [n \in DOMAIN lock_file.dependencies |->
                                   local_path(with_abs_path(lock_file.dependencies[n], root))],
                 packages |-> CollectPackages(lock_file)]
    IN  expand_path_deps(w, top, lock_file, IterationOrder(lock_file.dependencies, ord),
                         root, ord, init, {})

\* ------------------------------------------------------------------------
\* The lock state machine: one project, its manifest and its package.lock
\* ------------------------------------------------------------------------

Orders == {"asc", "desc"}

NoOp == [op |-> "none"]

LockIdle ==
    /\ world = CHOOSE w \in Worlds : TRUE
    /\ project = [parent_dir |-> Abs(<<"proj">>), dependencies |-> NoDeps]
    /\ disk_lock = None
    /\ cache_trees = {}
    /\ lres = NoOp

LockInit ==
    /\ world \in Worlds
    /\ project \in TopManifests
    /\ disk_lock = None
    /\ cache_trees = {}
    /\ lres = NoOp

\* nickel package lock: ManifestFile::lock on the project's manifest.
Lock(ord) ==
    LET r == lock(world, project, disk_lock, ord)
    IN  /\ lres' = [op |-> "lock", manifest |-> project, before |-> disk_lock, out |-> r]
        /\ disk_lock' = IF r.kind = "Ok" /\ r.written THEN r.lock ELSE disk_lock
        /\ cache_trees' = cache_trees \cup r.fetched
        /\ UNCHANGED <<world, project>>
        /\ UNCHANGED notLock

\* The sources a nested realize_rec call is made relative to.
RelativeTo ==
    { LGit("u1", "t1", Rel(<<>>)), LGit("u1", "t1", Rel(<<"a">>)), LPath(Abs(<<"proj">>)) }

NestedPaths ==
    { Rel(<<"a">>), Rel(<<"..">>), Rel(<<"..", "..">>), Rel(<<"a", "..", "b">>),
      Abs(<<"proj", "a">>), Abs(<<"cache", "t1", "a">>) }

\* One realize_rec call on a path dependency of a package already realised.
RealizeRec(path, relative, ord) ==
    LET spec == [name |-> "n1", source |-> PPath(path)]
        r    == realize_rec(world, project, spec, relative, ord, MaxDepth)
    IN  /\ lres' = [op |-> "realize_rec", path |-> path, relative |-> relative, out |-> r]
        /\ cache_trees' = cache_trees \cup r.fetched
        /\ UNCHANGED <<world, project, disk_lock>>
        /\ UNCHANGED notLock

\* is_lock_file_up_to_date on the lock file on disk, for a manifest loaded
\* from the project's file or built by from_term (no parent directory).
CheckUpToDate(deps, from_term) ==
    LET m == [parent_dir |-> IF from_term THEN None ELSE project.parent_dir,
              dependencies |-> deps]
    IN  /\ disk_lock # None
        /\ lres' = [op |-> "up_to_date", manifest |-> m, lock |-> disk_lock,
                    out |-> is_lock_file_up_to_date(m, disk_lock)]
        /\ UNCHANGED <<world, project, disk_lock, cache_trees>>
        /\ UNCHANGED notLock

UnknownParent == LGit("u9", "t9", Rel(<<>>))

\* The parents a lookup is made for: none, the sources a lock file of the
\* project can hold, and one that no lock file holds.
ParentArgs ==
    {None, UnknownParent}
        \cup {LGit(u, RepoHead(u), p) : u \in Urls, p \in {Rel(<<>>), Rel(<<"a">>)}}
        \cup {LPath(p) : p \in {Rel(<<"a">>), Abs(<<"proj", "a">>)}}

\* ResolvedLockFile::get on the lock file read from disk.
Get(parent_arg, pkg, pos) ==
    /\ disk_lock # None
    /\ parent_arg \in {None, UnknownParent} \cup DOMAIN disk_lock.packages
    /\ lres' = [op |-> "get", parent |-> parent_arg, pkg |-> pkg, pos |-> pos,
                inner |-> disk_lock, out |-> lookup(disk_lock, parent_arg, pkg, pos)]
    /\ UNCHANGED <<world, project, disk_lock, cache_trees>>
    /\ UNCHANGED notLock

\* A lock file as a hand may leave it on disk: its Path entries carry a
\* dependency, which lock() never writes.
Planted(lock_file) ==
    [lock_file EXCEPT !.packages =
        [k \in DOMAIN @ |->
            IF is_path(k)
            THEN [@[k] EXCEPT !.dependencies = "n2" :> LGit("u2", RepoHead("u2"), Rel(<<>>))]
            ELSE @[k]]]

\* nickel package debug-resolution: resolve_package_map on the lock file that
\* lock() returned for the project, with the manifest's directory as root.
ResolvePackageMap(planted, ord) ==
    LET lf == IF planted THEN Planted(disk_lock) ELSE disk_lock
        r  == resolve_package_map(world, project, lf, project.parent_dir, ord)
    IN  /\ disk_lock # None
        /\ lres' = [op |-> "resolve_package_map", lock |-> lf,
                    root |-> project.parent_dir, out |-> r]
        /\ cache_trees' = cache_trees \cup r.fetched
        /\ UNCHANGED <<world, project, disk_lock>>
        /\ UNCHANGED notLock

LockNext ==
    \/ \E ord \in Orders : Lock(ord)
    \/ \E deps \in TopDependencies, from_term \in BOOLEAN : CheckUpToDate(deps, from_term)
    \/ \E parent_arg \in ParentArgs, pkg \in Names, pos \in Positions :
          Get(parent_arg, pkg, pos)
    \/ \E planted \in BOOLEAN, ord \in Orders : ResolvePackageMap(planted, ord)

RealizeNext ==
    \E path \in NestedPaths, relative \in RelativeTo, ord \in Orders :
        RealizeRec(path, relative, ord)

\* ------------------------------------------------------------------------
\* Claims on the lock file and the package lookup
\* ------------------------------------------------------------------------

LockReturned == lres.op = "lock" /\ lres.out.kind = "Ok"

Closed(lf) ==
    /\ \A n \in DOMAIN lf.dependencies : lf.dependencies[n] \in DOMAIN lf.packages
    /\ \A k \in DOMAIN lf.packages :
          \A n \in DOMAIN lf.packages[k].dependencies :
              lf.packages[k].dependencies[n] \in DOMAIN lf.packages

\* C6: in every lock file that lock() returns, each locked source that is a
\* value of the top-level dependencies or of the dependencies of a packages
\* entry is itself a key of packages.
C6_LockFileClosed == LockReturned => Closed(lres.out.lock)

\* A lock() that returned a lock file with a package that has dependencies
\* of its own, and that wrote it to disk.
C6_Witness ==
    /\ LockReturned
    /\ lres.out.written
    /\ disk_lock = lres.out.lock
    /\ \E k \in DOMAIN lres.out.lock.packages :
          lres.out.lock.packages[k].dependencies # <<>>

\* C7: a path dependency declared by a package from a git repository, whose
\* directory in the repository holds a manifest, is locked as a Git source
\* with the parent's repository and tree and the path relative to the
\* repository root when its normalised target is under that root; otherwise
\* the realisation fails with RestrictedPath(attempted target, repository root).
C7_NestedPathLocked ==
    (lres.op = "realize_rec" /\ lres.relative.kind = "Git" /\ lres.out.kind # "Diverges") =>
        LET target == normalize_abs_path(join(local_path(lres.relative), lres.path))
            root   == repo_root(lres.relative)
            under  == /\ Len(root.c) <= Len(target.c)
                      /\ \A i \in 1..Len(root.c) : target.c[i] = root.c[i]
            rest   == Rel([i \in 1..(Len(target.c) - Len(root.c)) |-> target.c[Len(root.c) + i]])
        IN  IF under
            THEN target.c \in DOMAIN Files(world, project) =>
                    /\ lres.out.kind = "Ok"
                    /\ lres.out.spec.source = LGit(lres.relative.repo, lres.relative.tree, rest)
            ELSE /\ lres.out.kind = "Err"
                 /\ lres.out.err = RestrictedPath(target, root)

Compatible(m, src, locked) ==
    \/ src.kind = "Git" /\ locked.kind = "Git" /\ src.url = locked.repo
    \/ /\ src.kind = "Path" /\ locked.kind = "Path"
       /\ m.parent_dir # None
       /\ locked.path = join(m.parent_dir, src.path)

\* The part of a lock file that a manifest's dependency names mention.
Mentioned(m, lf) ==
    [dependencies |-> [n \in DOMAIN lf.dependencies \cap DOMAIN m.dependencies |->
                          lf.dependencies[n]],
     packages |-> <<>>]

\* C8: is_lock_file_up_to_date(manifest, lock) is true exactly when every
\* dependency name of the manifest is a key of lock.dependencies with a
\* compatible locked source (Git against Git with the same URL, Path against
\* Path equal to the manifest path joined to the manifest's directory), and the
\* entries of the lock file that the manifest does not name do not matter.
C8_UpToDateCharacterised ==
    lres.op = "up_to_date" =>
        /\ lres.out = (\A n \in DOMAIN lres.manifest.dependencies :
                          /\ n \in DOMAIN lres.lock.dependencies
                          /\ Compatible(lres.manifest, lres.manifest.dependencies[n],
                                        lres.lock.dependencies[n]))
        /\ lres.out = is_lock_file_up_to_date(lres.manifest, Mentioned(lres.manifest, lres.lock))

\* A check that answered true for a manifest with a path dependency, against
\* a lock file that holds more than the manifest names.
C8_Witness ==
    /\ lres.op = "up_to_date"
    /\ lres.out = TRUE
    /\ \E n \in DOMAIN lres.manifest.dependencies :
          lres.manifest.dependencies[n].kind = "Path"
    /\ lres.lock.packages # <<>>

\* C9: the lock file that a successful lock() returns is judged up to date by
\* is_lock_file_up_to_date for the manifest it was made from.
C9_LockedIsUpToDate ==
    LockReturned => is_lock_file_up_to_date(lres.manifest, lres.out.lock)

\* C10: get(parent, name, pos) returns the entry for name in the top-level
\* dependencies when there is no parent and in the parent's dependencies when
\* there is one; an absent name gives MissingDependency with the parent (there
\* iff one was given), the name and pos; a parent that is no key of packages
\* gives InternalError.
C10_GetResult ==
    lres.op = "get" =>
        LET inner  == lres.inner
            given  == lres.parent # None
            known  == lres.parent \in DOMAIN inner.packages
            deps   == IF given THEN inner.packages[lres.parent].dependencies
                      ELSE inner.dependencies
        IN  IF given /\ ~known
            THEN lres.out.kind = "InternalError" /\ lres.out.pos = lres.pos
            ELSE IF lres.pkg \in DOMAIN deps
            THEN lres.out = [kind |-> "Ok", source |-> deps[lres.pkg]]
            ELSE /\ lres.out.kind = "MissingDependency"
                 /\ lres.out.missing = lres.pkg
                 /\ lres.out.pos = lres.pos
                 /\ (lres.out.parent # None) <=> given
                 /\ given => lres.out.parent = <<inner.packages[lres.parent].name, lres.parent>>

\* A lookup leaves the lock file as it was.
GetKeepsLockFile == lres'.op = "get" => (disk_lock' = disk_lock /\ lres'.inner = disk_lock)

\* C10 (whole): the results of get as above, and the lock file is never
\* modified by a lookup.
C10_Lookup == [](C10_GetResult) /\ [][GetKeepsLockFile]_lockVars

\* A lookup under a parent of the lock file for a name the parent does not
\* depend on, and one that found the name.
C10_Witness ==
    /\ lres.op = "get"
    /\ lres.parent \in DOMAIN lres.inner.packages
    /\ lres.inner.packages[lres.parent].dependencies # <<>>
    /\ lres.pkg \notin DOMAIN lres.inner.packages[lres.parent].dependencies
    /\ lres.out.kind = "MissingDependency"

Resolved == lres.op = "resolve_package_map" /\ lres.out.kind = "Ok"

C30_LockTerminates ==
    (lres.op = "lock") => (lres.out.kind # "Diverges")

\* ------------------------------------------------------------------------
\* Terms in shared allocations (term/mod.rs): RichTerm, SharedTerm, Term
\* ------------------------------------------------------------------------

\* Term variants by what traverse_1 pushes for them: nothing (Null, Closure),
\* one sub-term (Op1), two (App), an annotation and a sub-term (Annotated).
Cell(variant, kids, label) ==
    [variant |-> variant, kids |-> kids, label |-> label, mark |-> FALSE]

\* The terms traversed, as heaps; the root is at address 1 and the label of
\* a node is its address, which a copy of the node keeps.
Terms ==
    { 1 :> Cell("Null", <<>>, 1),
      (1 :> Cell("Op1", <<2>>, 1)) @@ (2 :> Cell("Closure", <<>>, 2)),
      (1 :> Cell("Op1", <<2>>, 1)) @@ (2 :> Cell("Op1", <<3>>, 2)) @@ (3 :> Cell("Null", <<>>, 3)),
      (1 :> Cell("App", <<2, 3>>, 1)) @@ (2 :> Cell("Op1", <<4>>, 2))
          @@ (3 :> Cell("Null", <<>>, 3)) @@ (4 :> Cell("Null", <<>>, 4)),
      (1 :> Cell("Annotated", <<2>>, 1)) @@ (2 :> Cell("App", <<3, 4>>, 2))
          @@ (3 :> Cell("Null", <<>>, 3)) @@ (4 :> Cell("Closure", <<>>, 4)),
      (1 :> Cell("App", <<2, 3>>, 1)) @@ (2 :> Cell("Op1", <<4>>, 2))
          @@ (3 :> Cell("Null", <<>>, 3)) @@ (4 :> Cell("Op1", <<5>>, 4))
          @@ (5 :> Cell("Null", <<>>, 5)) }

TraverseOrder == {"TopDown", "BottomUp"}

\* What the callback f does: hand its argument back, hand back a rewritten
\* node, or fail at one node and hand the others back.
FModes(term) ==
    {[mode |-> "id", at |-> 0], [mode |-> "mark", at |-> 0]}
        \cup {[mode |-> "fail", at |-> l] : l \in DOMAIN term}

\* A slot holding a RichTerm: field idx of the term at `cell`, or the local
\* variable root (cell 0); idx 0 of an Annotated term is its TypeAnnotation,
\* which is stored in the term itself and is no RichTerm.
RootSlot == [cell |-> 0, idx |-> 1]

IsRichTerm(slot) == slot.idx # 0

Target(heap, rp, slot) == IF slot.cell = 0 THEN rp ELSE heap[slot.cell].kids[slot.idx]

RECURSIVE ReachFrom(_, _)
\* The allocations kept alive by a set of handles.
ReachFrom(heap, S) ==
    LET more == S \cup UNION {{heap[a].kids[i] : i \in 1..Len(heap[a].kids)} : a \in S}
    IN  IF more = S THEN S ELSE ReachFrom(heap, more)

\* Rc::strong_count: the handles `self` and `root`, the handles held
\* elsewhere, and the fields of the terms that are alive.
strong_count(heap, rp, selfp, ext, a) ==
    LET live == ReachFrom(heap, ({rp, selfp} \cup ext) \ {0})
    IN  (IF rp = a THEN 1 ELSE 0) + (IF selfp = a THEN 1 ELSE 0) + (IF a \in ext THEN 1 ELSE 0)
        + Cardinality({<<c, i>> \in live \X (1..2) :
                          i <= Len(heap[c].kids) /\ heap[c].kids[i] = a})

Fresh(heap) == Cardinality(DOMAIN heap) + 1

\* A write that lands in the local root whatever the slot is.
WriteSlot_Root(heap, rp, slot, b) == [heap |-> heap, rootp |-> b]

\* The write `*next = value` through the raw pointer.
WriteSlot(heap, rp, slot, b) ==
    IF slot.cell = 0 THEN [heap |-> heap, rootp |-> b]
    ELSE [heap |-> [heap EXCEPT ![slot.cell].kids[slot.idx] = b], rootp |-> rp]

\* SharedTerm::make_mut (Rc::make_mut): the term itself when this handle is
\* the only one, a copy in a new allocation otherwise.
make_mut(heap, rp, selfp, ext, slot) ==
    LET a == Target(heap, rp, slot)
        b == Fresh(heap)
        w == WriteSlot(heap @@ (b :> heap[a]), rp, slot, b)
    IN  IF strong_count(heap, rp, selfp, ext, a) = 1
        THEN [heap |-> heap, rootp |-> rp, at |-> a, copied |-> {}]
        ELSE [heap |-> w.heap, rootp |-> w.rootp, at |-> b,
              copied |-> {[label |-> heap[a].label,
                           outside |-> a \in ReachFrom(heap, ext)]}]

\* The slots traverse_1 pushes for the term at address a, in the order pushed.
PushedSlots(heap, a) ==
    (IF heap[a].variant = "Annotated" THEN <<[cell |-> a, idx |-> 0]>> ELSE <<>>)
        \o [i \in 1..Len(heap[a].kids) |-> [cell |-> a, idx |-> i]]

\* f(next.clone()) for the RichTerm in a slot: the log of the call, and the
\* term handed back (or the error).
CallF(heap, rp, slot, f) ==
    LET a == Target(heap, rp, slot)
        b == Fresh(heap)
    IN  CASE f.mode = "fail" /\ f.at = heap[a].label ->
                [kind |-> "Err", heap |-> heap, rootp |-> rp]
          [] f.mode = "mark" ->
                LET w == WriteSlot(heap @@ (b :> [heap[a] EXCEPT !.mark = TRUE]), rp, slot, b)
                IN  [kind |-> "Ok", heap |-> w.heap, rootp |-> w.rootp]
          [] OTHER -> [kind |-> "Ok", heap |-> heap, rootp |-> rp]

Pop(stack) == SubSeq(stack, 1, Len(stack) - 1)

Top(stack) == stack[Len(stack)]

Recurses(n) == [i \in 1..n |-> "Recurse"]

\* ------------------------------------------------------------------------
\* Traverse::traverse, one iteration of its loop at a time
\* ------------------------------------------------------------------------

TraverseIdle ==
    /\ theap = <<>>
    /\ targ = [op |-> "none"]
    /\ rootp = 0
    /\ todo = <<>>
    /\ todo_i = <<>>
    /\ todo_s = <<>>
    /\ applied = <<>>
    /\ clones = {}
    /\ tres = NoResult

\* traverse(self, f, order) is entered: root = self.clone(), todo = [&mut root],
\* todo_i = [Recurse]. `ext` are the handles to nodes of the term that the
\* caller keeps elsewhere.
TraverseInit ==
    /\ \E term \in Terms :
          /\ theap = term
          /\ \E order \in TraverseOrder, f \in FModes(term),
                ext \in {{}} \cup {{a} : a \in DOMAIN term} :
                targ = [op |-> "traverse", term |-> term, self |-> 1,
                        order |-> order, f |-> f, ext |-> ext]
    /\ rootp = 1
    /\ todo = <<RootSlot>>
    /\ todo_i = <<"Recurse">>
    /\ todo_s = <<>>
    /\ applied = <<>>
    /\ clones = {}
    /\ tres = NoResult

Running == tres = NoResult /\ todo # <<>>

\* A stack on which the entry of the node itself ends above its children.
Schedule_ChildrenBelow(stack, own, pushed) == stack \o pushed \o own

\* The stack after the Recurse arm: the entry the arm pushed for the node
\* itself (BottomUp), then what traverse_1 pushed.
Schedule(stack, own, pushed) == stack \o own \o pushed

\* An error of f that is not looked at.
Failed_Never(r) == FALSE

\* The `?` on the result of f.
Failed(r) == r.kind = "Err"

\* The rest of the Recurse arm: traverse_1 on the slot and one Recurse for
\* each slot it pushed.
Traverse1(heap, rp, slot, stack, stack_i, own, own_i) ==
    IF IsRichTerm(slot)
    THEN LET mm == make_mut(heap, rp, targ.self, targ.ext, slot)
             ps == PushedSlots(mm.heap, mm.at)
         IN  /\ theap' = mm.heap
             /\ rootp' = mm.rootp
             /\ clones' = clones \cup mm.copied
             /\ todo' = Schedule(stack, own, ps)
             /\ todo_i' = Schedule(stack_i, own_i, Recurses(Len(ps)))
    ELSE /\ theap' = heap
         /\ rootp' = rp
         /\ clones' = clones
         /\ todo' = Schedule(stack, own, <<>>)
         /\ todo_i' = Schedule(stack_i, own_i, <<>>)

\* Instruction::Recurse with TraverseOrder::BottomUp
RecurseBottomUp ==
    /\ Running /\ targ.op = "traverse"
    /\ Top(todo_i) = "Recurse" /\ targ.order = "BottomUp"
    /\ Traverse1(theap, rootp, Top(todo), Pop(todo), Pop(todo_i),
                 <<Top(todo)>>, <<"ApplyF">>)
    /\ UNCHANGED <<targ, todo_s, applied, tres>>
    /\ UNCHANGED notTraverse

\* Instruction::Recurse with TraverseOrder::TopDown
RecurseTopDown ==
    /\ Running /\ targ.op = "traverse"
    /\ Top(todo_i) = "Recurse" /\ targ.order = "TopDown"
    /\ LET slot == Top(todo)
           r    == CallF(theap, rootp, slot, targ.f)
       IN  IF ~IsRichTerm(slot)
           THEN /\ Traverse1(theap, rootp, slot, Pop(todo), Pop(todo_i), <<>>, <<>>)
                /\ UNCHANGED <<applied, tres>>
           ELSE /\ applied' = Append(applied, theap[Target(theap, rootp, slot)].label)
                /\ IF Failed(r)
                   THEN /\ tres' = [kind |-> "Err", at |-> targ.f.at]
                        /\ todo' = <<>> /\ todo_i' = <<>>
                        /\ UNCHANGED <<theap, rootp, clones>>
                   ELSE /\ Traverse1(r.heap, r.rootp, slot, Pop(todo), Pop(todo_i), <<>>, <<>>)
                        /\ UNCHANGED tres
    /\ UNCHANGED <<targ, todo_s>>
    /\ UNCHANGED notTraverse

\* Instruction::ApplyF
ApplyF ==
    /\ Running /\ targ.op = "traverse"
    /\ Top(todo_i) = "ApplyF"
    /\ LET slot == Top(todo)
           r    == CallF(theap, rootp, slot, targ.f)
       IN  IF ~IsRichTerm(slot)
           THEN /\ todo' = Pop(todo) /\ todo_i' = Pop(todo_i)
                /\ UNCHANGED <<theap, rootp, applied, tres>>
           ELSE /\ applied' = Append(applied, theap[Target(theap, rootp, slot)].label)
                /\ IF Failed(r)
                   THEN /\ tres' = [kind |-> "Err", at |-> targ.f.at]
                        /\ todo' = <<>> /\ todo_i' = <<>>
                        /\ UNCHANGED <<theap, rootp>>
                   ELSE /\ theap' = r.heap /\ rootp' = r.rootp
                        /\ todo' = Pop(todo) /\ todo_i' = Pop(todo_i)
                        /\ UNCHANGED tres
    /\ UNCHANGED <<targ, todo_s, clones>>
    /\ UNCHANGED notTraverse

\* The loop ends with the stack empty: Ok(root).
TraverseReturn ==
    /\ targ.op = "traverse"
    /\ tres = NoResult /\ todo = <<>>
    /\ tres' = [kind |-> "Ok", root |-> rootp]
    /\ UNCHANGED <<theap, targ, rootp, todo, todo_i, todo_s, applied, clones>>
    /\ UNCHANGED notTraverse

TraverseNext == RecurseBottomUp \/ RecurseTopDown \/ ApplyF \/ TraverseReturn

\* ------------------------------------------------------------------------
\* Traverse::traverse_ref, one iteration of its loop at a time
\* ------------------------------------------------------------------------

TraverseControl == {"Continue", "ContinueWithScope", "SkipBranch", "Return"}

\* The scope the caller passed (todo_s holds None for it).
OriginalScope == 0

\* The scope f hands back at a node with ContinueWithScope: one per node.
ScopeOf(label) == label

\* traverse_ref(self, f, scope) is entered: todo = [self], todo_s = [None].
\* f answers at each node as the function targ.f says.
TraverseRefInit ==
    /\ \E term \in Terms :
          /\ theap = term
          /\ \E f \in [DOMAIN term -> TraverseControl] :
                targ = [op |-> "traverse_ref", term |-> term, self |-> 1, f |-> f]
    /\ rootp = 1
    /\ todo = <<RootSlot>>
    /\ todo_i = <<>>
    /\ todo_s = <<OriginalScope>>
    /\ applied = <<>>
    /\ clones = {}
    /\ tres = NoResult

RefRunning == targ.op = "traverse_ref" /\ tres = NoResult /\ todo # <<>>

NextNode == Target(theap, rootp, Top(todo))

\* The answer of f at the node on top of the stack.
Control == targ.f[theap[NextNode].label]

\* A scope for the children that forgets what the parent was given.
next_scope_Forget(scope, control, label) ==
    IF control = "ContinueWithScope" THEN ScopeOf(label) ELSE OriginalScope

\* next_scope: the parent's scope on Continue, the new one on ContinueWithScope.
next_scope(scope, control, label) ==
    IF control = "ContinueWithScope" THEN ScopeOf(label) ELSE scope

\* The scopes pushed for what traverse_ref_1 pushed: next_scope for each.
PushedScopes(control) ==
    [i \in 1..Len(PushedSlots(theap, NextNode)) |->
        next_scope(Top(todo_s), control, theap[NextNode].label)]

\* TraverseControl::Continue: the children are pushed with the scope f was given.
RefContinue ==
    /\ RefRunning /\ IsRichTerm(Top(todo)) /\ Control = "Continue"
    /\ applied' = Append(applied, [label |-> theap[NextNode].label, scope |-> Top(todo_s)])
    /\ todo' = Pop(todo) \o PushedSlots(theap, NextNode)
    /\ todo_s' = Pop(todo_s) \o PushedScopes("Continue")
    /\ UNCHANGED <<theap, targ, rootp, todo_i, clones, tres>>
    /\ UNCHANGED notTraverse

\* TraverseControl::ContinueWithScope(s): the children are pushed with s.
RefContinueWithScope ==
    /\ RefRunning /\ IsRichTerm(Top(todo)) /\ Control = "ContinueWithScope"
    /\ applied' = Append(applied, [label |-> theap[NextNode].label, scope |-> Top(todo_s)])
    /\ todo' = Pop(todo) \o PushedSlots(theap, NextNode)
    /\ todo_s' = Pop(todo_s) \o PushedScopes("ContinueWithScope")
    /\ UNCHANGED <<theap, targ, rootp, todo_i, clones, tres>>
    /\ UNCHANGED notTraverse

\* TraverseControl::SkipBranch: `continue`, nothing is pushed.
RefSkipBranch ==
    /\ RefRunning /\ IsRichTerm(Top(todo)) /\ Control = "SkipBranch"
    /\ applied' = Append(applied, [label |-> theap[NextNode].label, scope |-> Top(todo_s)])
    /\ todo' = Pop(todo)
    /\ todo_s' = Pop(todo_s)
    /\ UNCHANGED <<theap, targ, rootp, todo_i, clones, tres>>
    /\ UNCHANGED notTraverse

\* TraverseControl::Return(ret): return Some(ret)
RefReturn ==
    /\ RefRunning /\ IsRichTerm(Top(todo)) /\ Control = "Return"
    /\ applied' = Append(applied, [label |-> theap[NextNode].label, scope |-> Top(todo_s)])
    /\ tres' = [kind |-> "Some", at |-> theap[NextNode].label]
    /\ todo' = <<>>
    /\ todo_s' = <<>>
    /\ UNCHANGED <<theap, targ, rootp, todo_i, clones>>
    /\ UNCHANGED notTraverse

\* The downcast fails (a TypeAnnotation): f is not called, and the scope goes
\* on to what traverse_ref_1 pushes (nothing for an empty annotation).
RefNotATerm ==
    /\ RefRunning /\ ~IsRichTerm(Top(todo))
    /\ todo' = Pop(todo)
    /\ todo_s' = Pop(todo_s)
    /\ UNCHANGED <<theap, targ, rootp, todo_i, applied, clones, tres>>
    /\ UNCHANGED notTraverse

\* The stack is empty: None.
RefEnd ==
    /\ targ.op = "traverse_ref" /\ tres = NoResult /\ todo = <<>>
    /\ tres' = [kind |-> "None", at |-> 0]
    /\ UNCHANGED <<theap, targ, rootp, todo, todo_i, todo_s, applied, clones>>
    /\ UNCHANGED notTraverse

TraverseRefNext ==
    \/ RefContinue
    \/ RefContinueWithScope
    \/ RefSkipBranch
    \/ RefReturn
    \/ RefNotATerm
    \/ RefEnd

\* ------------------------------------------------------------------------
\* Claims on traverse
\* ------------------------------------------------------------------------

RECURSIVE Shape(_, _)
\* The term at an address as a tree: variant, payload and sub-terms.
Shape(heap, a) ==
    [variant |-> heap[a].variant, mark |-> heap[a].mark,
     kids |-> [i \in 1..Len(heap[a].kids) |-> Shape(heap, heap[a].kids[i])]]

RECURSIVE HasClosure(_)
HasClosure(t) ==
    t.variant = "Closure" \/ \E i \in 1..Len(t.kids) : HasClosure(t.kids[i])

RECURSIVE term_eq(_, _)
\* impl PartialEq for Term: by cases, and a Closure is equal to no Closure.
term_eq(x, y) ==
    IF x.variant = "Closure" /\ y.variant = "Closure" THEN FALSE
    ELSE /\ x.variant = y.variant
         /\ x.mark = y.mark
         /\ Len(x.kids) = Len(y.kids)
         /\ \A i \in 1..Len(x.kids) : term_eq(x.kids[i], y.kids[i])

IdentityReturned == targ.op = "traverse" /\ tres.kind = "Ok" /\ targ.f.mode = "id"

\* C12 (as stated): for every root and both orders, traverse(root, identity,
\* order) returns a term equal to root under the equality of terms.
C12_IdentityEqual ==
    IdentityReturned => term_eq(Shape(theap, tres.root), Shape(targ.term, targ.self))

\* C12 (amended): traverse(root, identity, order) returns a term with the
\* variants, payloads and sub-terms of root, node by node; it is equal to root
\* under the equality of terms exactly when root holds no Closure node.
C12_IdentityStructure ==
    IdentityReturned =>
        /\ Shape(theap, tres.root) = Shape(targ.term, targ.self)
        /\ term_eq(Shape(theap, tres.root), Shape(targ.term, targ.self))
               <=> ~HasClosure(Shape(targ.term, targ.self))

\* The identity traversal of a term with a Closure under an application
\* returned, bottom-up.
C12_Witness ==
    /\ IdentityReturned
    /\ targ.order = "BottomUp"
    /\ HasClosure(Shape(targ.term, targ.self))
    /\ Len(applied) = 4

\* The nodes below a node of the term traversed.
Descendants(l) == ReachFrom(targ.term, {l}) \ {l}

Before(l, i) == \E j \in 1..(i - 1) : applied[j] = l

\* C13: bottom-up, f is applied to a node only after it was applied to each
\* of its descendants; top-down, before it is applied to any of them; no node
\* gets f twice and a traversal that returns has applied f to every node. The
\* two stacks of slots and of Recurse/ApplyF instructions stay in step.
C13_OrderOfApplication ==
    targ.op = "traverse" =>
        /\ Len(todo) = Len(todo_i)
        /\ \A i \in 1..Len(todo_i) : todo_i[i] \in {"Recurse", "ApplyF"}
        /\ \A i \in 1..Len(applied) :
              /\ ~Before(applied[i], i)
              /\ \A d \in Descendants(applied[i]) :
                    IF targ.order = "BottomUp" THEN Before(d, i) ELSE ~Before(d, i)
        /\ tres.kind = "Ok" => {applied[i] : i \in 1..Len(applied)} = DOMAIN targ.term

\* A bottom-up traversal has applied f to the two sons of an application and
\* not yet to the application, whose ApplyF is still on the stack.
C13_Witness ==
    /\ targ.op = "traverse" /\ targ.order = "BottomUp"
    /\ \E l \in DOMAIN targ.term :
          /\ targ.term[l].variant = "App"
          /\ \A i \in 1..2 : \E j \in 1..Len(applied) : applied[j] = targ.term[l].kids[i]
          /\ \A j \in 1..Len(applied) : applied[j] # l
    /\ todo_i # <<>> /\ Top(todo_i) = "ApplyF"

NoCallAfterError == tres.kind = "Err" => (applied' = applied /\ tres' = tres)

FailsAtOnce ==
    (targ.op = "traverse" /\ \E i \in 1..Len(applied) : applied[i] = targ.f.at) =>
        /\ tres = [kind |-> "Err", at |-> targ.f.at]
        /\ applied[Len(applied)] = targ.f.at
        /\ \A i \in 1..(Len(applied) - 1) : applied[i] # targ.f.at
        /\ todo = <<>>

\* C14: when f fails on a node, traverse returns that error in the same step:
\* the failing call is the last call of f, and the result is the error and
\* no term.
C14_ErrorShortCircuits == [](FailsAtOnce) /\ [][NoCallAfterError]_travVars

\* f failed on a node after it had been applied to another one, with nodes
\* left that f was never applied to.
C14_Witness ==
    /\ targ.op = "traverse"
    /\ tres.kind = "Err"
    /\ Len(applied) >= 2
    /\ {applied[i] : i \in 1..Len(applied)} # DOMAIN targ.term

\* C16: make_mut copies a node during traverse only if a handle outside the
\* traversal keeps the node (or a term it is part of) alive.
C16_ClonedOnlyIfShared ==
    targ.op = "traverse" => \A c \in clones : c.outside

\* The proper ancestors of a node of the term traversed.
Ancestors(l) == {a \in DOMAIN targ.term : l \in ReachFrom(targ.term, {a}) /\ a # l}

Overriders(l) == {a \in Ancestors(l) : targ.f[a] = "ContinueWithScope"}

\* C15: the scope f is given at a node is the one handed back by the nearest
\* proper ancestor that answered ContinueWithScope, the original scope when
\* there is none; so the scope a node set is seen by its descendants only.
C15_ScopePerSubtree ==
    targ.op = "traverse_ref" =>
        /\ Len(todo) = Len(todo_s)
        /\ \A i \in 1..Len(applied) :
              LET l   == applied[i].label
                  ovr == Overriders(l)
              IN  /\ IF ovr = {} THEN applied[i].scope = OriginalScope
                      ELSE LET near == CHOOSE a \in ovr : \A b \in ovr : b \in Ancestors(a) \/ b = a
                           IN  applied[i].scope = ScopeOf(near)
                  /\ applied[i].scope # OriginalScope => applied[i].scope \in Ancestors(l)

\* In one walk a node saw the scope set by its grandparent through a parent
\* that answered Continue, and a node outside that subtree was given the
\* original scope.
C15_Witness ==
    /\ targ.op = "traverse_ref"
    /\ \E i, j \in 1..Len(applied) :
          /\ applied[i].scope # OriginalScope
          /\ applied[j].scope = OriginalScope
          /\ applied[i].scope \notin Ancestors(applied[j].label)
    /\ \E i \in 1..Len(applied) :
          \E p \in Ancestors(applied[i].label) :
              /\ targ.f[p] = "Continue"
              /\ applied[i].scope \in Ancestors(p)

\* ------------------------------------------------------------------------
\* Pattern compilation (core/src/term/pattern/compile.rs)
\*
\* compile_part builds an expression of let, if-then-else and primitive
\* operators; the definitions below are that expression read as a function of
\* the value and of the bindings it is applied to, block by block under the
\* names the blocks have in the source. The evaluator and its primitive
\* operators are not part of the sources: they are taken from their
\* descriptions (term/mod.rs for the record operators, the comments of
\* compile.rs, the specification for the others).
\* ------------------------------------------------------------------------

MaxFields == 3

\* A value of the evaluator: Term::Null, Term::Num, Term::Enum(tag),
\* Term::EnumVariant{tag, arg}, Term::Record(fields) with the fields in
\* insertion order. All of them have one shape.
Value(k, tag, arg, fields) == [k |-> k, tag |-> tag, arg |-> arg, fields |-> fields]

Null == Value("Null", "", <<>>, <<>>)

Num == Value("Num", "", <<>>, <<>>)

Enum(tag) == Value("Enum", tag, <<>>, <<>>)

EnumVariant(tag, arg) == Value("EnumVariant", tag, <<arg>>, <<>>)

Field(id, value) == [id |-> id, value |-> value]

Record(fields) == Value("Record", "", <<>>, fields)

\* The evaluation stopped with an EvalError.
RuntimeError == Value("RuntimeError", "", <<>>, <<>>)

\* The names of the fields of a record.
field_names(r) == {r.fields[i].id : i \in DOMAIN r.fields}

\* %record_insert% id r value (BinaryOp::DynExtend): adds the field at the
\* end; it is an error when r is not a record or has the field already. The
\* content is not evaluated.
record_insert(id, r, value) ==
    IF r.k # "Record" \/ id \in field_names(r)
    THEN RuntimeError
    ELSE Record(Append(r.fields, Field(id, value)))

\* %record_remove% id r (BinaryOp::DynRemove): the record without the field,
\* the others in their order; an error when r is not a record or lacks it.
record_remove(id, r) ==
    IF r.k # "Record" \/ id \notin field_names(r)
    THEN RuntimeError
    ELSE LET Other(f) == f.id # id
         IN  Record(SelectSeq(r.fields, Other))

\* %static_access(id)% r (UnaryOp::StaticAccess).
static_access(id, r) ==
    IF r.k # "Record" \/ id \notin field_names(r)
    THEN RuntimeError
    ELSE LET i == CHOOSE j \in DOMAIN r.fields : r.fields[j].id = id
         IN  r.fields[i].value

\* %field_is_defined% id r, applied to records only.
field_is_defined(id, r) == id \in field_names(r)

\* %typeof% v: the tag 'Record, 'Enum (bare tags and variants), ...
typeof(v) == IF v.k = "EnumVariant" THEN "Enum" ELSE v.k

\* %enum_is_variant% v
enum_is_variant(v) == v.k = "EnumVariant"

\* %enum_get_tag% v, applied to enums only.
enum_get_tag(v) == v.tag

\* %enum_unwrap_variant% v, applied to variants only.
enum_unwrap_variant(v) == v.arg[1]

\* if x == null then a else b: the comparison evaluates x.
if_eq_null(x, a, b) ==
    IF x = RuntimeError THEN RuntimeError ELSE IF x = Null THEN a ELSE b

\* ---- the pattern AST (term/pattern/mod.rs is not among the sources; the
\* ---- fields are the ones compile.rs reads)
PatternData(k, id, tag, pattern, patterns, tail) ==
    [k |-> k, id |-> id, tag |-> tag, pattern |-> pattern,
     patterns |-> patterns, tail |-> tail]

RecordPatternTail(k, id) == [k |-> k, id |-> id]

AnyPattern(id) == PatternData("Any", id, "", <<>>, <<>>, RecordPatternTail("Empty", ""))

EnumPattern(tag, pattern) ==
    PatternData("Enum", "", tag, pattern, <<>>, RecordPatternTail("Empty", ""))

RecordPattern(patterns, tail) == PatternData("Record", "", "", <<>>, patterns, tail)

FieldPattern(matched_id, pattern) == [matched_id |-> matched_id, pattern |-> pattern]

\* Pattern { data, alias }: alias is <<>> or <<id>>.
Pattern(data, alias) == [data |-> data, alias |-> alias]

\* LocIdent::fresh(): the n-th generated identifier. Of the identifiers the
\* compiler generates only the rest fields become field names, so only they
\* are counted.
FreshIdents == <<"%0", "%1", "%2", "%3", "%4", "%5">>

fresh(n) == FreshIdents[n + 1]

RECURSIVE FreshIn(_)
RECURSIVE FreshBefore(_, _)
\* How many rest fields the compilation of a pattern generates.
FreshIn(p) ==
    CASE p.data.k = "Any" -> 0
      [] p.data.k = "Enum" ->
            IF p.data.pattern = <<>> THEN 0 ELSE FreshIn(p.data.pattern[1])
      [] p.data.k = "Record" ->
            1 + FreshBefore(p.data.patterns, Len(p.data.patterns) + 1)

\* ... and the compilation of the field patterns before the k-th.
FreshBefore(patterns, k) ==
    IF k <= 1 THEN 0
    ELSE FreshBefore(patterns, k - 1) + FreshIn(patterns[k - 1].pattern)

\* %record_insert% "<id>" bindings_id value_id
insert_binding(id, value_id, bindings_id) == record_insert(id, bindings_id, value_id)

\* The mutant: the field stays in the rest.
remove_from_rest_Keep(rest_field, field, bindings_id) == bindings_id

\* The bindings with `field` taken out of their rest field.
remove_from_rest(rest_field, field, bindings_id) ==
    LET rest == static_access(rest_field, bindings_id)
        rest_shrinked == record_remove(field, rest)
        bindings_shrinked == record_remove(rest_field, bindings_id)
    IN  record_insert(rest_field, bindings_shrinked, rest_shrinked)

\* The mutant: the rest field stays in the bindings.
bindings_without_rest_Keep(rest_field, final_bindings_id) == final_bindings_id

\* %record_remove% "<REST>" final_bindings_id

bindings_without_rest(rest_field, final_bindings_id) ==
    record_remove(rest_field, final_bindings_id)

\* The mutant: tail Empty without the test of the residual.
tail_block_NoResidualTest(tail, rest_field, final_bindings_id) ==
    CASE tail.k = "Empty" ->
            if_eq_null(final_bindings_id, Null,
                bindings_without_rest(rest_field, final_bindings_id))
      [] tail.k = "Open" ->
            bindings_without_rest(rest_field, final_bindings_id)
      [] tail.k = "Capture" ->
            if_eq_null(final_bindings_id, Null,
                record_remove(rest_field,
                    record_insert(tail.id, final_bindings_id,
                                  static_access(rest_field, final_bindings_id))))

\* The last block of a record pattern, by its tail.
tail_block(tail, rest_field, final_bindings_id) ==
    CASE tail.k = "Empty" ->
            \* final_bindings_id == null || !(final_bindings_id.REST == {})
            if_eq_null(final_bindings_id, Null,
                LET rest == static_access(rest_field, final_bindings_id)
                IN  IF rest = RuntimeError THEN RuntimeError
                    ELSE IF rest # Record(<<>>) THEN Null
                    ELSE bindings_without_rest(rest_field, final_bindings_id))
      [] tail.k = "Open" ->
            \* no test of final_bindings_id
            bindings_without_rest(rest_field, final_bindings_id)
      [] tail.k = "Capture" ->
            if_eq_null(final_bindings_id, Null,
                record_remove(rest_field,
                    record_insert(tail.id, final_bindings_id,
                                  static_access(rest_field, final_bindings_id))))

RECURSIVE Pattern_compile_part(_, _, _, _)
RECURSIVE PatternData_compile_part(_, _, _, _)
RECURSIVE RecordPattern_compile_part(_, _, _, _)
RECURSIVE EnumPattern_compile_part(_, _, _, _)
RECURSIVE fold_block(_, _, _, _, _, _)

\* impl CompilePart for Pattern; n identifiers were generated before.
Pattern_compile_part(p, value_id, bindings_id, n) ==
    IF p.alias # <<>>
    THEN PatternData_compile_part(p.data, value_id,
            insert_binding(p.alias[1], value_id, bindings_id), n)
    ELSE PatternData_compile_part(p.data, value_id, bindings_id, n)

\* impl CompilePart for PatternData
PatternData_compile_part(data, value_id, bindings_id, n) ==
    CASE data.k = "Any" -> insert_binding(data.id, value_id, bindings_id)
      [] data.k = "Record" -> RecordPattern_compile_part(data, value_id, bindings_id, n)
      [] data.k = "Enum" -> EnumPattern_compile_part(data, value_id, bindings_id, n)

\* The fold over the first k field patterns: the k-th is the outermost if.
fold_block(pat, k, rest_field, value_id, bindings_id, n) ==
    IF k = 0
    THEN \* init_bindings
         record_insert(rest_field, bindings_id, value_id)
    ELSE LET field_pat == pat.patterns[k]
             field == field_pat.matched_id
             cont == fold_block(pat, k - 1, rest_field, value_id, bindings_id, n)
             local_value_id == static_access(field, static_access(rest_field, cont))
             local_bindings_id == remove_from_rest(rest_field, field, cont)
         IN  IF ~field_is_defined(field, value_id)
             THEN Null
             ELSE if_eq_null(cont, Null,
                     Pattern_compile_part(field_pat.pattern, local_value_id,
                         local_bindings_id, n + 1 + FreshBefore(pat.patterns, k)))

\* impl CompilePart for RecordPattern
RecordPattern_compile_part(pat, value_id, bindings_id, n) ==
    LET rest_field == fresh(n)
        is_record == typeof(value_id) = "Record"
        final_bindings_id ==
            fold_block(pat, Len(pat.patterns), rest_field, value_id, bindings_id, n)
    IN  IF is_record
        THEN tail_block(pat.tail, rest_field, final_bindings_id)
        ELSE Null

\* impl CompilePart for EnumPattern
EnumPattern_compile_part(pat, value_id, bindings_id, n) ==
    IF pat.pattern # <<>>
    THEN IF enum_is_variant(value_id) /\ enum_get_tag(value_id) = pat.tag
         THEN Pattern_compile_part(pat.pattern[1], enum_unwrap_variant(value_id),
                                   bindings_id, n)
         ELSE Null
    ELSE IF /\ typeof(value_id) = "Enum"
            /\ ~enum_is_variant(value_id)
            /\ enum_get_tag(value_id) = pat.tag
         THEN bindings_id
         ELSE Null

RECURSIVE compile(_, _, _, _)
\* impl Compile for MatchData, from the i-th branch on: what the match
\* expression does on the value. The branches are compiled last to first.
compile(branches, i, has_default, value) ==
    IF i > Len(branches)
    THEN IF has_default THEN [kind |-> "Default"] ELSE [kind |-> "NonExhaustiveMatch"]
    ELSE LET bindings_id ==
                 Pattern_compile_part(branches[i].pattern, value, Record(<<>>),
                                      branches[i].n)
         IN  IF bindings_id = RuntimeError THEN [kind |-> "RuntimeError"]
             ELSE IF bindings_id = Null THEN compile(branches, i + 1, has_default, value)
             ELSE [kind |-> "PatternBranch", branch |-> i, bindings |-> bindings_id]

\* ---- the values and patterns the compiled code is run on
FieldIds == {"a", "b", "c"}

FieldValues(id) ==
    IF id = "a"
    THEN {Num, Enum("A"), EnumVariant("A", Num),
          Record(<<Field("a", Num)>>),
          Record(<<Field("b", Num), Field("a", Num)>>)}
    ELSE IF id = "b" THEN {Num, EnumVariant("A", Num)}
    ELSE {Num}

IdSeqs ==
    {s \in UNION {[1..len -> FieldIds] : len \in 0..MaxFields} :
        \A i, j \in DOMAIN s : s[i] = s[j] => i = j}

Records ==
    UNION {{Record([i \in DOMAIN s |-> Field(s[i], f[i])]) :
                f \in {g \in [DOMAIN s -> FieldValues("a")] :
                          \A i \in DOMAIN s : g[i] \in FieldValues(s[i])}} :
           s \in IdSeqs}

Values ==
    {Null, Num, Enum("A"), Enum("B"),
     EnumVariant("A", Num), EnumVariant("B", Num),
     EnumVariant("A", Record(<<Field("a", Num)>>))} \cup Records

Plain(data) == Pattern(data, <<>>)

Tails(rest) ==
    {RecordPatternTail("Empty", ""), RecordPatternTail("Open", ""),
     RecordPatternTail("Capture", rest)}

\* The patterns a field is matched with; the names they bind differ from
\* field to field, as no name is bound twice in a pattern.
SubPatterns(id) ==
    IF id = "a"
    THEN {Plain(AnyPattern("xa")),
          Plain(EnumPattern("A", <<>>)),
          Plain(EnumPattern("A", <<Plain(AnyPattern("ya"))>>)),
          Pattern(RecordPattern(<<FieldPattern("a", Plain(AnyPattern("za")))>>,
                                RecordPatternTail("Empty", "")), <<"wa">>)}
         \cup {Plain(RecordPattern(<<FieldPattern("a", Plain(AnyPattern("za")))>>, t)) :
                   t \in Tails("ra") \ {RecordPatternTail("Empty", "")}}
    ELSE {Plain(AnyPattern("xb")),
          Plain(EnumPattern("A", <<Plain(AnyPattern("yb"))>>)),
          Plain(RecordPattern(<<>>, RecordPatternTail("Open", "")))}

PatternIdSeqs == {<<>>, <<"a">>, <<"b">>, <<"a", "b">>, <<"b", "a">>}

RecordPatterns ==
    UNION {{RecordPattern([i \in DOMAIN s |-> FieldPattern(s[i], f[i])], t) :
                f \in {g \in [DOMAIN s -> SubPatterns("a") \cup SubPatterns("b")] :
                          \A i \in DOMAIN s : g[i] \in SubPatterns(s[i])},
                t \in Tails("rest")} :
           s \in PatternIdSeqs}

Patterns ==
    {Plain(d) : d \in RecordPatterns}
    \cup {Pattern(d, <<"w">>) : d \in {r \in RecordPatterns : Len(r.patterns) = 1}}
    \cup {Plain(AnyPattern("x")), Pattern(AnyPattern("x"), <<"w">>),
          Plain(EnumPattern("A", <<>>)), Pattern(EnumPattern("B", <<>>), <<"w">>),
          Plain(EnumPattern("A", <<Plain(AnyPattern("y"))>>)),
          Plain(EnumPattern("A", <<Plain(RecordPattern(
              <<FieldPattern("a", Plain(AnyPattern("x")))>>, RecordPatternTail("Open", "")))>>))}

\* The branch after the first one in the match expression.
OtherBranches ==
    {Plain(EnumPattern("A", <<>>)),
     Plain(RecordPattern(<<>>, RecordPatternTail("Open", "")))}

\* ---- the pattern compiler as a state machine
PatternIdle ==
    /\ ppat = None
    /\ pval = None
    /\ pres = None
    /\ mres = None

PatternInit ==
    /\ ppat \in Patterns
    /\ pval \in Values
    /\ pres = None
    /\ mres = None

\* The compiled pattern applied to the value and to the empty bindings.
CompilePart ==
    /\ pres = None
    /\ pres' = Pattern_compile_part(ppat, pval, Record(<<>>), 0)
    /\ UNCHANGED <<ppat, pval, mres>>
    /\ UNCHANGED notPattern

\* match { ppat => .., other => .., [_ => ..] } applied to the value.
Match ==
    /\ pres # None
    /\ mres = None
    /\ \E other \in OtherBranches, has_default \in BOOLEAN :
          LET branches == <<[pattern |-> ppat, n |-> FreshIn(other)],
                            [pattern |-> other, n |-> 0]>>
          IN  mres' = [call |-> compile(branches, 1, has_default, pval),
                       branches |-> branches, has_default |-> has_default]
    /\ UNCHANGED <<ppat, pval, pres>>
    /\ UNCHANGED notPattern

PatternNext ==
    \/ CompilePart
    \/ Match

\* ---- the claims on the pattern compiler
RECURSIVE BindingNames(_)
RECURSIVE BindingNamesOf(_, _)
\* The names a pattern introduces: variables, aliases, captured rests.
BindingNames(p) ==
    (IF p.alias = <<>> THEN {} ELSE {p.alias[1]})
    \cup CASE p.data.k = "Any" -> {p.data.id}
           [] p.data.k = "Enum" ->
                 IF p.data.pattern = <<>> THEN {} ELSE BindingNames(p.data.pattern[1])
           [] p.data.k = "Record" ->
                 (IF p.data.tail.k = "Capture" THEN {p.data.tail.id} ELSE {})
                 \cup BindingNamesOf(p.data.patterns, Len(p.data.patterns))

BindingNamesOf(patterns, k) ==
    IF k = 0 THEN {}
    ELSE BindingNamesOf(patterns, k - 1) \cup BindingNames(patterns[k].pattern)

Listed(data) == {data.patterns[i].matched_id : i \in DOMAIN data.patterns}

RECURSIVE Matches(_, _)
\* What it is for a value to match a pattern, by the structure of the pattern.
Matches(p, v) ==
    CASE p.data.k = "Any" -> TRUE
      [] p.data.k = "Enum" ->
            IF p.data.pattern = <<>>
            THEN v.k = "Enum" /\ v.tag = p.data.tag
            ELSE /\ v.k = "EnumVariant"
                 /\ v.tag = p.data.tag
                 /\ Matches(p.data.pattern[1], v.arg[1])
      [] p.data.k = "Record" ->
            /\ v.k = "Record"
            /\ Listed(p.data) \subseteq field_names(v)
            /\ p.data.tail.k = "Empty" => field_names(v) \subseteq Listed(p.data)
            /\ \A i \in DOMAIN p.data.patterns :
                  Matches(p.data.patterns[i].pattern,
                          static_access(p.data.patterns[i].matched_id, v))

Compiled == pres # None

Succeeded == pres # None /\ pres.k = "Record"

\* C17: the bindings of a successful match have as fields exactly the names
\* the pattern introduces, each once: no rest field of the pattern or of a
\* nested record pattern is left in them, whether the pattern is evaluated
\* alone or in a branch of a match expression.
C17_BindingsAreThePatternNames ==
    /\ Succeeded =>
          /\ field_names(pres) = BindingNames(ppat)
          /\ Len(pres.fields) = Cardinality(BindingNames(ppat))
    /\ (mres # None /\ mres.call.kind = "PatternBranch") =>
          field_names(mres.call.bindings) =
              BindingNames(mres.branches[mres.call.branch].pattern)

C17_Witness ==
    /\ Succeeded
    /\ ppat.data.k = "Record"
    /\ ppat.data.tail.k = "Open"
    /\ \E i \in DOMAIN ppat.data.patterns :
          /\ ppat.data.patterns[i].pattern.data.k = "Record"
          /\ ppat.data.patterns[i].pattern.data.tail.k = "Capture"
    /\ Cardinality(field_names(pval)) > Len(ppat.data.patterns)

\* C18: a record pattern with tail Empty matches exactly the records whose
\* fields are the listed ones with every listed field matching its
\* sub-pattern; {} matches the empty record and nothing else.
C18_EmptyTailMatchesExactly ==
    (Compiled /\ ppat.data.k = "Record" /\ ppat.data.tail.k = "Empty") =>
        /\ Succeeded <=>
              /\ pval.k = "Record"
              /\ field_names(pval) = Listed(ppat.data)
              /\ \A i \in DOMAIN ppat.data.patterns :
                    Matches(ppat.data.patterns[i].pattern,
                            static_access(ppat.data.patterns[i].matched_id, pval))
        /\ ppat.data.patterns = <<>> => (Succeeded <=> pval = Record(<<>>))

C18_Witness ==
    /\ Compiled
    /\ ppat.data.k = "Record"
    /\ ppat.data.tail.k = "Empty"
    /\ Len(ppat.data.patterns) = 1
    /\ pval.k = "Record"
    /\ Listed(ppat.data) \subseteq field_names(pval)
    /\ Cardinality(field_names(pval)) = 2
    /\ Matches(ppat.data.patterns[1].pattern,
               static_access(ppat.data.patterns[1].matched_id, pval))
    /\ pres = Null

Unlisted(data, v) ==
    LET Other(f) == f.id \notin Listed(data)
    IN  Record(SelectSeq(v.fields, Other))

\* C19: a record pattern with tail Open matches every record that has the
\* listed fields with matching values, whatever other fields it has; with
\* tail Capture(id) it matches the same records and binds id to the record
\* of the fields of the value that are not listed, in the order of the value.
C19_OpenAndCapture ==
    (Compiled /\ ppat.data.k = "Record" /\ ppat.data.tail.k # "Empty"
        /\ Matches(ppat, pval)) =>
        /\ Succeeded
        /\ ppat.data.tail.k = "Capture" =>
              static_access(ppat.data.tail.id, pres) = Unlisted(ppat.data, pval)

C19_Witness ==
    /\ Succeeded
    /\ ppat.data.k = "Record"
    /\ ppat.data.tail.k = "Capture"
    /\ Len(ppat.data.patterns) = 1
    /\ Len(pval.fields) = 3
    /\ pval.fields[2].id = ppat.data.patterns[1].matched_id
    /\ pval.fields[1].id = "c"
    /\ static_access(ppat.data.tail.id, pres) =
          Record(<<pval.fields[1], pval.fields[3]>>)

\* C20: evaluating a compiled pattern on a value gives null or a record of
\* bindings and never a runtime error.
C20_NeverRaises ==
    /\ Compiled => pres # RuntimeError
    /\ mres # None => mres.call.kind # "RuntimeError"

MatchingBranches ==
    {i \in DOMAIN mres.branches : Matches(mres.branches[i].pattern, pval)}

\* C21: a match expression evaluates the body of the first branch whose
\* pattern matches the value, with the bindings of that pattern alone; when
\* no branch matches it evaluates the default branch, or yields
\* NonExhaustiveMatch when there is none.
C21_FirstMatchingBranch ==
    mres # None =>
        IF MatchingBranches = {}
        THEN mres.call.kind =
                (IF mres.has_default THEN "Default" ELSE "NonExhaustiveMatch")
        ELSE /\ mres.call.kind = "PatternBranch"
             /\ \A i \in MatchingBranches : mres.call.branch <= i
             /\ mres.call.branch \in MatchingBranches
             /\ mres.call.bindings =
                    Pattern_compile_part(mres.branches[mres.call.branch].pattern,
                                         pval, Record(<<>>), 0)

\* ------------------------------------------------------------------------
\* Pattern types of a match expression (core/src/typecheck/pattern.rs)
\*
\* pattern_types_inj, close_enums and close_enum are in the sources. The
\* unification table, the unification of row types and the typechecking of
\* the match expression that calls them are not: they are modelled as the
\* specification and the comments of pattern.rs describe them.
\* ------------------------------------------------------------------------

\* UnifType: Dyn, a unification variable, an enum type or a record type over
\* rows. rows is <<>> or <<the rows>>.
UnifType(k, id, rows) == [k |-> k, id |-> id, rows |-> rows]

\* UnifEnumRows / UnifRecordRows: Empty, a unification variable, or a row
\* (label, type) in front of a tail. typ is <<>> for a tag without argument.
UnifRows(k, id, label, typ, tail) ==
    [k |-> k, id |-> id, label |-> label, typ |-> typ, tail |-> tail]

RowsEmpty == UnifRows("Empty", 0, "", <<>>, <<>>)

RowsUnifVar(id) == UnifRows("UnifVar", id, "", <<>>, <<>>)

RowsExtend(label, typ, tail) == UnifRows("Extend", 0, label, typ, <<tail>>)

TypeUnifVar(id) == UnifType("UnifVar", id, <<>>)

\* state.table: variable -> <<>> while it is free, <<what it was assigned>>.
\* fresh_type_uvar, fresh_erows_uvar, fresh_rrows_uvar
fresh_uvar(table) == [id |-> Len(table) + 1, table |-> Append(table, <<>>)]

\* assign_type, assign_erows, assign_rrows
assign(table, id, x) == [table EXCEPT ![id] = <<x>>]

RECURSIVE into_root(_, _)
\* UnifEnumRows::into_root, UnifType::into_root: through the assigned variables.
into_root(x, table) ==
    IF x.k = "UnifVar" /\ table[x.id] # <<>>
    THEN into_root(table[x.id][1], table)
    ELSE x

Failure(table) == [ok |-> FALSE, table |-> table]

Success(table) == [ok |-> TRUE, table |-> table]

RECURSIVE unify(_, _, _)
RECURSIVE unify_rows(_, _, _)
RECURSIVE remove_row(_, _, _, _)
\* UnifType::unify
unify(t1, t2, table) ==
    LET r1 == into_root(t1, table)
        r2 == into_root(t2, table)
    IN  CASE r1.k = "UnifVar" ->
                IF r2 = r1 THEN Success(table) ELSE Success(assign(table, r1.id, r2))
          [] r1.k # "UnifVar" /\ r2.k = "UnifVar" -> Success(assign(table, r2.id, r1))
          [] r1.k = "Dyn" /\ r2.k = "Dyn" -> Success(table)
          [] r1.k \in {"Enum", "Record"} /\ r2.k = r1.k ->
                unify_rows(r1.rows[1], r2.rows[1], table)
          [] OTHER -> Failure(table)

\* r without the row `label`, whose type is unified with typ; a free variable
\* at the end of r is extended with the row and a fresh tail.
remove_row(label, typ, r, table) ==
    LET root == into_root(r, table)
    IN  CASE root.k = "UnifVar" ->
                LET f == fresh_uvar(table)
                IN  [ok |-> TRUE, rest |-> RowsUnifVar(f.id),
                     table |-> assign(f.table, root.id,
                                      RowsExtend(label, typ, RowsUnifVar(f.id)))]
          [] root.k = "Empty" -> [ok |-> FALSE, rest |-> root, table |-> table]
          [] root.k = "Extend" /\ root.label = label ->
                IF typ = <<>> \/ root.typ = <<>>
                THEN [ok |-> typ = root.typ, rest |-> root.tail[1], table |-> table]
                ELSE LET u == unify(typ[1], root.typ[1], table)
                     IN  [ok |-> u.ok, rest |-> root.tail[1], table |-> u.table]
          [] root.k = "Extend" /\ root.label # label ->
                LET sub == remove_row(label, typ, root.tail[1], table)
                IN  [ok |-> sub.ok,
                     rest |-> RowsExtend(root.label, root.typ, sub.rest),
                     table |-> sub.table]

\* UnifEnumRows::unify, UnifRecordRows::unify
unify_rows(r1, r2, table) ==
    LET root1 == into_root(r1, table)
        root2 == into_root(r2, table)
    IN  CASE root1.k = "UnifVar" ->
                IF root2 = root1 THEN Success(table)
                ELSE Success(assign(table, root1.id, root2))
          [] root1.k # "UnifVar" /\ root2.k = "UnifVar" ->
                Success(assign(table, root2.id, root1))
          [] root1.k = "Empty" /\ root2.k # "UnifVar" ->
                IF root2.k = "Empty" THEN Success(table) ELSE Failure(table)
          [] root1.k = "Extend" /\ root2.k # "UnifVar" ->
                LET sub == remove_row(root1.label, root1.typ, root2, table)
                IN  IF sub.ok
                    THEN unify_rows(root1.tail[1], sub.rest, sub.table)
                    ELSE Failure(sub.table)

\* ---- PatternTypes::pattern_types_inj, in TypecheckMode::Enforce
Wildcard == PatternData("Wildcard", "", "", <<>>, <<>>, RecordPatternTail("Empty", ""))

\* PatternPathElem
PathField(id) == [k |-> "Field", id |-> id]

PathVariant == [k |-> "Variant", id |-> ""]

\* PatTypeState with the typechecker's table.
PatTypeState(table, tails, wildcards) ==
    [table |-> table, enum_open_tails |-> tails, wildcard_pat_paths |-> wildcards]

\* any_type in Enforce mode: a fresh unification variable.
any_type(pt_state) ==
    LET f == fresh_uvar(pt_state.table)
    IN  [typ |-> TypeUnifVar(f.id), pt_state |-> [pt_state EXCEPT !.table = f.table]]

RECURSIVE Pattern_pattern_types_inj(_, _, _)
RECURSIVE RecordPattern_rows(_, _, _, _, _)
\* impl PatternTypes for Pattern / PatternData / EnumPattern / RecordPattern
\* and FieldPattern (without annotation): the type and the updated state.
Pattern_pattern_types_inj(p, path, pt_state) ==
    CASE p.data.k = "Wildcard" ->
            any_type([pt_state EXCEPT !.wildcard_pat_paths = @ \cup {path}])
      [] p.data.k = "Any" -> any_type(pt_state)
      [] p.data.k = "Record" ->
            \* such a record pattern is closed: the tail is the empty row
            LET rows == RecordPattern_rows(p.data, Len(p.data.patterns), path,
                                           pt_state, RowsEmpty)
            IN  [typ |-> UnifType("Record", 0, <<rows.rows>>), pt_state |-> rows.pt_state]
      [] p.data.k = "Enum" ->
            LET arg == IF p.data.pattern = <<>>
                       THEN [typ |-> <<>>, pt_state |-> pt_state]
                       ELSE LET sub == Pattern_pattern_types_inj(p.data.pattern[1],
                                           Append(path, PathVariant), pt_state)
                            IN  [typ |-> <<sub.typ>>, pt_state |-> sub.pt_state]
                f == fresh_uvar(arg.pt_state.table)
                tail == RowsUnifVar(f.id)
            IN  [typ |-> UnifType("Enum", 0, <<RowsExtend(p.data.tag, arg.typ, tail)>>),
                 pt_state |-> [arg.pt_state EXCEPT
                                  !.table = f.table,
                                  !.enum_open_tails = Append(@, [path |-> path, tail |-> tail])]]

\* The fold of the rows of the first k field patterns over the tail.
RecordPattern_rows(pat, k, path, pt_state, tail) ==
    IF k = 0 THEN [rows |-> tail, pt_state |-> pt_state]
    ELSE LET before == RecordPattern_rows(pat, k - 1, path, pt_state, tail)
             field_pat == pat.patterns[k]
             sub == Pattern_pattern_types_inj(field_pat.pattern,
                        Append(path, PathField(field_pat.matched_id)), before.pt_state)
         IN  [rows |-> RowsExtend(field_pat.matched_id, <<sub.typ>>, before.rows),
              pt_state |-> sub.pt_state]

\* The tail variable at the end of the rows as they are written (the iterator
\* of the rows does not read the table), <<>> when they end closed.
RECURSIVE TailUnifVar(_)
TailUnifVar(rows) ==
    CASE rows.k = "Extend" -> TailUnifVar(rows.tail[1])
      [] rows.k = "UnifVar" -> <<rows>>
      [] OTHER -> <<>>

RECURSIVE close_enum(_, _)
\* close_enum: the table after closing the final tail of `tail`.
close_enum(tail, table) ==
    LET root == into_root(tail, table)
    IN  IF root.k = "UnifVar"
        THEN assign(table, root.id, RowsEmpty)
        ELSE IF TailUnifVar(root) # <<>>
             THEN close_enum(TailUnifVar(root)[1], table)
             ELSE table

\* The mutant: the wildcards are not looked at.
ToClose_All(path, wildcards) == TRUE

\* The filter of close_enums.
ToClose(path, wildcards) == path \notin wildcards

RECURSIVE close_enums(_, _, _, _)
\* close_enums on the tails from the i-th on.
close_enums(tails, i, wildcards, table) ==
    IF i > Len(tails) THEN table
    ELSE close_enums(tails, i + 1, wildcards,
            IF ToClose(tails[i].path, wildcards)
            THEN close_enum(tails[i].tail, table)
            ELSE table)

\* ---- the typechecking of a match expression as a state machine
TypeTags == {"A", "B"}

TypeLeaves == {Plain(Wildcard), Plain(AnyPattern("x"))}

TypeEnums1 ==
    {Plain(EnumPattern(t, <<>>)) : t \in TypeTags}
    \cup {Plain(EnumPattern(t, <<s>>)) : t \in TypeTags, s \in TypeLeaves}

TypeEnums2 ==
    {Plain(EnumPattern(t, <<s>>)) : t \in TypeTags, s \in TypeEnums1}

TypeRecords ==
    {Plain(RecordPattern(<<FieldPattern("a", s)>>, RecordPatternTail("Empty", ""))) :
        s \in TypeLeaves \cup TypeEnums1}

TypePatterns == TypeLeaves \cup TypeEnums1 \cup TypeEnums2 \cup TypeRecords

MatchBranches ==
    {<<p, q>> : p \in TypePatterns, q \in TypePatterns}
    \cup {<<p, q, r>> : p \in TypeEnums2, q \in TypeEnums1 \cup TypeEnums2, r \in TypeEnums1}

MatchTypesIdle ==
    /\ mbranches = <<>>
    /\ utable = <<>>
    /\ enum_open_tails = <<>>
    /\ wildcard_occurrences = {}
    /\ mtyp = <<>>
    /\ mpc = "idle"
    /\ table_before = <<>>

\* The type of the argument of the match is a fresh variable.
MatchTypesInit ==
    /\ mbranches \in MatchBranches
    /\ utable = <<<<>>>>
    /\ enum_open_tails = <<>>
    /\ wildcard_occurrences = {}
    /\ mtyp = <<>>
    /\ mpc = "pattern_types"
    /\ table_before = <<>>

\* pattern_types on the next branch.
PatternTypes ==
    /\ mpc = "pattern_types"
    /\ LET r == Pattern_pattern_types_inj(mbranches[Len(mtyp) + 1], <<>>,
                    PatTypeState(utable, <<>>, {}))
       IN  /\ utable' = r.pt_state.table
           /\ enum_open_tails' = enum_open_tails \o r.pt_state.enum_open_tails
           /\ wildcard_occurrences' =
                  wildcard_occurrences \cup r.pt_state.wildcard_pat_paths
           /\ mtyp' = Append(mtyp, r.typ)
    /\ mpc' = "unify"
    /\ UNCHANGED <<mbranches, table_before>>
    /\ UNCHANGED notTypes

\* The type of the branch is unified with the type of the argument.
UnifyBranch ==
    /\ mpc = "unify"
    /\ LET u == unify(TypeUnifVar(1), mtyp[Len(mtyp)], utable)
       IN  /\ utable' = u.table
           /\ mpc' = IF ~u.ok THEN "TypeError"
                     ELSE IF Len(mtyp) < Len(mbranches) THEN "pattern_types"
                     ELSE "close_enums"
    /\ UNCHANGED <<mbranches, enum_open_tails, wildcard_occurrences, mtyp, table_before>>
    /\ UNCHANGED notTypes

\* close_enums on the tails and the wildcards of all branches.
CloseEnums ==
    /\ mpc = "close_enums"
    /\ table_before' = utable
    /\ utable' = close_enums(enum_open_tails, 1, wildcard_occurrences, utable)
    /\ mpc' = "done"
    /\ UNCHANGED <<mbranches, enum_open_tails, wildcard_occurrences, mtyp>>
    /\ UNCHANGED notTypes

MatchTypesNext ==
    \/ PatternTypes
    \/ UnifyBranch
    \/ CloseEnums

\* ---- the claims on close_enums
RECURSIVE FinalTail(_, _)
\* Where the rows end once every assigned variable is read through: a free
\* variable or the empty row.
FinalTail(rows, table) ==
    LET root == into_root(rows, table)
    IN  IF root.k = "Extend" THEN FinalTail(root.tail[1], table) ELSE root

RecordedTails == DOMAIN enum_open_tails

\* C22: after close_enums every recorded tail whose path is not a path of a
\* wildcard ends in the empty row, and every recorded tail whose path is one
\* still ends in the free variable it ended in before.
C22_ClosedUnlessWildcard ==
    mpc = "done" =>
        \A i \in RecordedTails :
            IF enum_open_tails[i].path \in wildcard_occurrences
            THEN /\ FinalTail(enum_open_tails[i].tail, utable).k = "UnifVar"
                 /\ FinalTail(enum_open_tails[i].tail, utable) =
                        FinalTail(enum_open_tails[i].tail, table_before)
            ELSE FinalTail(enum_open_tails[i].tail, utable) = RowsEmpty

C22_Witness ==
    /\ mpc = "done"
    /\ \E i, j \in RecordedTails :
          /\ enum_open_tails[i].path \in wildcard_occurrences
          /\ enum_open_tails[j].path \notin wildcard_occurrences
          /\ enum_open_tails[i].path # <<>>
          /\ FinalTail(enum_open_tails[j].tail, table_before).k = "UnifVar"

\* C23: once all branches are unified, two tails recorded under the same
\* path end in the same row variable.
C23_SamePathSameVariable ==
    mpc = "close_enums" =>
        \A i, j \in RecordedTails :
            enum_open_tails[i].path = enum_open_tails[j].path =>
                FinalTail(enum_open_tails[i].tail, utable) =
                    FinalTail(enum_open_tails[j].tail, utable)

\* ------------------------------------------------------------------------
\* ObjectId and its text (core/src/package.rs)
\* ------------------------------------------------------------------------

ID_LEN == 20

\* The digits base16::encode_lower writes, and the ones encode_upper would.
LowerDigits ==
    <<"0", "1", "2", "3", "4", "5", "6", "7", "8", "9", "a", "b", "c", "d", "e", "f">>

UpperDigits ==
    <<"0", "1", "2", "3", "4", "5", "6", "7", "8", "9", "A", "B", "C", "D", "E", "F">>

\* The mutant: upper case digits.
encode_lower_Upper(bytes) ==
    [i \in 1..(2 * Len(bytes)) |->
        IF i % 2 = 1
        THEN UpperDigits[(bytes[(i + 1) \div 2] \div 16) + 1]
        ELSE UpperDigits[(bytes[(i + 1) \div 2] % 16) + 1]]

\* base16::encode_lower: two digits for each byte, the high half first.
encode_lower(bytes) ==
    [i \in 1..(2 * Len(bytes)) |->
        IF i % 2 = 1
        THEN LowerDigits[(bytes[(i + 1) \div 2] \div 16) + 1]
        ELSE LowerDigits[(bytes[(i + 1) \div 2] % 16) + 1]]

\* impl Display for ObjectId
display(id) == encode_lower(id)

\* The value of a base16 digit of either case, 16 for any other character.
digit_value(ch) ==
    IF \E d \in 1..16 : LowerDigits[d] = ch
    THEN (CHOOSE d \in 1..16 : LowerDigits[d] = ch) - 1
    ELSE IF \E d \in 1..16 : UpperDigits[d] = ch
    THEN (CHOOSE d \in 1..16 : UpperDigits[d] = ch) - 1
    ELSE 16

\* base16::decode_slice on a text of even length: the bytes, or an error on
\* a character that is no digit.
decode_slice(s) ==
    IF \E i \in DOMAIN s : digit_value(s[i]) = 16
    THEN [ok |-> FALSE, err |-> "Base16", id |-> <<>>]
    ELSE [ok |-> TRUE, err |-> "",
          id |-> [i \in 1..(Len(s) \div 2) |->
                     (16 * digit_value(s[2 * i - 1]) + digit_value(s[2 * i])) % 256]]

\* impl FromStr for ObjectId
from_str(s) ==
    IF Len(s) = ID_LEN * 2
    THEN decode_slice(s)
    ELSE [ok |-> FALSE, err |-> "Length", id |-> <<>>]

\* ---- the object ids and the texts the functions are applied to
Bytes == {0, 9, 10, 15, 16, 171, 240, 255}

\* Ids with one byte that differs from the others, at any place.
ObjectIds ==
    {[i \in 1..ID_LEN |-> IF i = at THEN b1 ELSE b2] :
        at \in 1..ID_LEN, b1 \in Bytes, b2 \in Bytes}

\* Texts that were not displayed from an id: of a wrong length, in upper
\* case, with a character that is no digit.
Texts ==
    {[i \in 1..len |-> ch] : len \in {0, 39, 40, 41}, ch \in {"0", "F", "g"}}
    \cup {[i \in 1..40 |-> IF i = at THEN "g" ELSE "a"] : at \in {1, 2, 40}}

NotParsed == [ok |-> FALSE, err |-> "none", id |-> <<>>]

ObjectIdIdle ==
    /\ oid = <<>>
    /\ oid_text = <<>>
    /\ oid_parsed = NotParsed
    /\ opc = "idle"

ObjectIdInit ==
    /\ oid \in ObjectIds
    /\ oid_text = <<>>
    /\ oid_parsed = NotParsed
    /\ opc = "new"

\* oid.to_string()
Display ==
    /\ opc = "new"
    /\ oid_text' = display(oid)
    /\ opc' = "displayed"
    /\ UNCHANGED <<oid, oid_parsed>>
    /\ UNCHANGED notObjectId

\* A text from elsewhere (a lock file written by hand).
Supply ==
    /\ opc = "new"
    /\ oid_text' \in Texts
    /\ opc' = "supplied"
    /\ UNCHANGED <<oid, oid_parsed>>
    /\ UNCHANGED notObjectId

\* oid_text.parse::<ObjectId>()
FromStr ==
    /\ opc \in {"displayed", "supplied"}
    /\ oid_parsed = NotParsed
    /\ oid_parsed' = from_str(oid_text)
    /\ UNCHANGED <<oid, oid_text, opc>>
    /\ UNCHANGED notObjectId

ObjectIdNext ==
    \/ Display
    \/ Supply
    \/ FromStr

\* C24: the text displayed for an object id has 40 characters, all of them
\* lower case hexadecimal digits, and parsing it gives the object id back.
C24_DisplayParseRoundTrip ==
    opc = "displayed" =>
        /\ Len(oid_text) = 40
        /\ \A i \in DOMAIN oid_text : \E d \in 1..16 : LowerDigits[d] = oid_text[i]
        /\ oid_parsed # NotParsed => oid_parsed = [ok |-> TRUE, err |-> "", id |-> oid]

C24_Witness ==
    /\ opc = "displayed"
    /\ oid_parsed # NotParsed
    /\ \E i, j \in DOMAIN oid : oid[i] = 171 /\ oid[j] = 9

\* ------------------------------------------------------------------------
\* MergePriority (core/src/term/mod.rs)
\* ------------------------------------------------------------------------

MaxNumeral == 2

\* MergePriority: Bottom, Neutral, Numeral(n), Top. n is 0 but for Numeral.
MergePriority(k, n) == [k |-> k, n |-> n]

\* Number::cmp
Number_cmp(n1, n2) == IF n1 < n2 THEN "Less" ELSE IF n1 = n2 THEN "Equal" ELSE "Greater"

\* impl PartialEq for MergePriority
MergePriority_eq(self, other) ==
    IF self.k = other.k /\ self.k \in {"Bottom", "Neutral", "Top"} THEN TRUE
    ELSE IF self.k = "Numeral" /\ other.k = "Numeral" THEN self.n = other.n
    ELSE IF self.k = "Neutral" /\ other.k = "Numeral" /\ other.n = 0 THEN TRUE
    ELSE IF self.k = "Numeral" /\ other.k = "Neutral" /\ self.n = 0 THEN TRUE
    ELSE FALSE

\* The mutant: Neutral is below every Numeral.
MergePriority_cmp_NeutralBelow(self, other) ==
    IF self.k = other.k /\ self.k \in {"Bottom", "Neutral", "Top"} THEN "Equal"
    ELSE IF self.k = "Numeral" /\ other.k = "Numeral" THEN Number_cmp(self.n, other.n)
    ELSE IF self.k = "Bottom" \/ other.k = "Top" THEN "Less"
    ELSE IF self.k = "Top" \/ other.k = "Bottom" THEN "Greater"
    ELSE IF self.k = "Neutral" THEN "Less"
    ELSE "Greater"

\* impl Ord for MergePriority: the arms in their order.
MergePriority_cmp(self, other) ==
    IF self.k = other.k /\ self.k \in {"Bottom", "Neutral", "Top"} THEN "Equal"
    ELSE IF self.k = "Numeral" /\ other.k = "Numeral" THEN Number_cmp(self.n, other.n)
    ELSE IF self.k = "Bottom" \/ other.k = "Top" THEN "Less"
    ELSE IF self.k = "Top" \/ other.k = "Bottom" THEN "Greater"
    ELSE IF self.k = "Neutral" THEN Number_cmp(0, other.n)
    ELSE Number_cmp(self.n, 0)

Priorities ==
    {MergePriority(k, 0) : k \in {"Bottom", "Neutral", "Top"}}
    \cup {MergePriority("Numeral", n) : n \in (0 - MaxNumeral)..MaxNumeral}

PriorityIdle ==
    /\ prio = <<>>
    /\ prio_cmp = <<>>
    /\ prio_eq = <<>>

PriorityInit ==
    /\ prio \in [1..3 -> Priorities]
    /\ prio_cmp = <<>>
    /\ prio_eq = <<>>

\* prio[i].cmp(&prio[j]) for every pair.
Cmp ==
    /\ prio_cmp = <<>>
    /\ prio_cmp' = [i \in 1..3 |-> [j \in 1..3 |-> MergePriority_cmp(prio[i], prio[j])]]
    /\ UNCHANGED <<prio, prio_eq>>
    /\ UNCHANGED notPriority

\* prio[i] == prio[j] for every pair.
Eq ==
    /\ prio_eq = <<>>
    /\ prio_eq' = [i \in 1..3 |-> [j \in 1..3 |-> MergePriority_eq(prio[i], prio[j])]]
    /\ UNCHANGED <<prio, prio_cmp>>
    /\ UNCHANGED notPriority

PriorityNext ==
    \/ Cmp
    \/ Eq

Reverse(o) == IF o = "Less" THEN "Greater" ELSE IF o = "Greater" THEN "Less" ELSE "Equal"

\* The place of a priority on the line Bottom < numerals < Top, Neutral at 0.
Place(x) ==
    CASE x.k = "Bottom" -> 0 - (MaxNumeral + 10)
      [] x.k = "Top" -> MaxNumeral + 10
      [] x.k = "Neutral" -> 0
      [] x.k = "Numeral" -> x.n

\* C25: cmp is a total order (antisymmetric, transitive) that is Equal
\* exactly where == holds; Bottom is strictly below and Top strictly above
\* every other priority, numerals compare as numbers and Neutral compares
\* and equals like Numeral(0).
C25_TotalOrder ==
    (prio_cmp # <<>> /\ prio_eq # <<>>) =>
        \A i, j, l \in 1..3 :
            /\ prio_cmp[i][j] = Reverse(prio_cmp[j][i])
            /\ (prio_cmp[i][j] # "Greater" /\ prio_cmp[j][l] # "Greater") =>
                  /\ prio_cmp[i][l] # "Greater"
                  /\ prio_cmp[i][l] = "Equal" =>
                        (prio_cmp[i][j] = "Equal" /\ prio_cmp[j][l] = "Equal")
            /\ (prio_cmp[i][j] = "Equal") <=> prio_eq[i][j]
            /\ prio_eq[i][j] <=> prio_eq[j][i]
            /\ prio_cmp[i][j] = Number_cmp(Place(prio[i]), Place(prio[j]))

C25_Witness ==
    /\ prio_cmp # <<>>
    /\ prio_eq # <<>>
    /\ prio[1] = MergePriority("Neutral", 0)
    /\ prio[2] = MergePriority("Numeral", 0)
    /\ prio[3] = MergePriority("Numeral", 0 - 1)
    /\ prio_eq[1][2]
    /\ prio_cmp[3][1] = "Less"

\* ------------------------------------------------------------------------
\* make::static_access (core/src/term/mod.rs)
\* ------------------------------------------------------------------------

MaxAccess == 3

\* Term::Var(id); arg is <<>> for a term without a sub-term.
make_var(id) == [t |-> "Var", id |-> id, arg |-> <<>>]

\* make::op1(UnaryOp::StaticAccess(f), term)
make_op1_StaticAccess(f, term) == [t |-> "StaticAccess", id |-> f, arg |-> <<term>>]

\* The mutant: the fields are taken from the last to the first.
RECURSIVE static_access_loop_Rev(_, _, _)
static_access_loop_Rev(term, fields, i) ==
    IF i > Len(fields) THEN term
    ELSE static_access_loop_Rev(
            make_op1_StaticAccess(fields[Len(fields) + 1 - i], term), fields, i + 1)

\* for f in fields.into_iter() { term = make::op1(StaticAccess(f), term) },
\* from the i-th field on.
RECURSIVE static_access_loop(_, _, _)
static_access_loop(term, fields, i) ==
    IF i > Len(fields) THEN term
    ELSE static_access_loop(make_op1_StaticAccess(fields[i], term), fields, i + 1)

\* make::static_access(record, fields)
make_static_access(record, fields) == static_access_loop(record, fields, 1)

AccessIdents == {"records", "record", "x"}

AccessRecords ==
    {make_var("predicates"), make_var("x"),
     make_op1_StaticAccess("x", make_var("predicates"))}

AccessFields == UNION {[1..n -> AccessIdents] : n \in 0..MaxAccess}

NoTerm == [t |-> "None", id |-> "", arg |-> <<>>]

StaticAccessIdle ==
    /\ sa_record = NoTerm
    /\ sa_fields = <<>>
    /\ sa_term = NoTerm

StaticAccessInit ==
    /\ sa_record = NoTerm
    /\ sa_fields = <<>>
    /\ sa_term = NoTerm

\* A call make::static_access(record, fields).
StaticAccess ==
    /\ \E record \in AccessRecords : \E fields \in AccessFields :
          /\ sa_record' = record
          /\ sa_fields' = fields
          /\ sa_term' = make_static_access(record, fields)
    /\ UNCHANGED notStaticAccess

StaticAccessNext ==
    \/ StaticAccess

\* The term n accesses below the top of term.
RECURSIVE Below(_, _)
Below(term, n) ==
    IF n = 0 THEN term
    ELSE IF term.t # "StaticAccess" THEN NoTerm
    ELSE Below(term.arg[1], n - 1)

\* C26: make::static_access(r, [f1, .., fn]) is StaticAccess(fn) applied to
\* .. StaticAccess(f1) applied to r: the k-th field from the end is the
\* access k - 1 levels below the top, r is below the n accesses, and an
\* empty list gives r.
C26_FirstFieldInnermost ==
    (sa_term # NoTerm) =>
        /\ \A k \in 1..Len(sa_fields) :
              /\ Below(sa_term, k - 1).t = "StaticAccess"
              /\ Below(sa_term, k - 1).id = sa_fields[Len(sa_fields) + 1 - k]
        /\ Below(sa_term, Len(sa_fields)) = sa_record
        /\ (sa_fields = <<>>) => (sa_term = sa_record)

\* The call of the test make_static_access.
C26_Witness ==
    /\ sa_record = make_var("predicates")
    /\ sa_fields = <<"records", "record">>
    /\ sa_term = make_op1_StaticAccess("record",
                    make_op1_StaticAccess("records", make_var("predicates")))

\* ------------------------------------------------------------------------
\* The specifications
\* ------------------------------------------------------------------------

Init == CacheInit /\ GitInit /\ LockIdle /\ TraverseIdle /\ PatternIdle /\ MatchTypesIdle /\ ObjectIdIdle /\ PriorityIdle /\ StaticAccessIdle

Spec == Init /\ [][CacheNext]_vars

SpecSteps == Init /\ [][StepsNext]_vars

SpecPipeline == Init /\ [][PipelineNext]_vars

SpecGit == Init /\ [][GitNext]_vars

InitLock == CacheInit /\ GitInit /\ LockInit /\ TraverseIdle /\ PatternIdle /\ MatchTypesIdle /\ ObjectIdIdle /\ PriorityIdle /\ StaticAccessIdle

SpecLock == InitLock /\ [][LockNext]_vars

SpecRealize == InitLock /\ [][RealizeNext]_vars

InitTraverse == CacheInit /\ GitInit /\ LockIdle /\ TraverseInit /\ PatternIdle /\ MatchTypesIdle /\ ObjectIdIdle /\ PriorityIdle /\ StaticAccessIdle

SpecTraverse == InitTraverse /\ [][TraverseNext]_vars

InitTraverseRef == CacheInit /\ GitInit /\ LockIdle /\ TraverseRefInit /\ PatternIdle /\ MatchTypesIdle /\ ObjectIdIdle /\ PriorityIdle /\ StaticAccessIdle

SpecTraverseRef == InitTraverseRef /\ [][TraverseRefNext]_vars

InitPattern == CacheInit /\ GitInit /\ LockIdle /\ TraverseIdle /\ PatternInit /\ MatchTypesIdle /\ ObjectIdIdle /\ PriorityIdle /\ StaticAccessIdle

SpecPattern == InitPattern /\ [][PatternNext]_vars

InitMatchTypes ==
    CacheInit /\ GitInit /\ LockIdle /\ TraverseIdle /\ PatternIdle /\ MatchTypesInit /\ ObjectIdIdle /\ PriorityIdle /\ StaticAccessIdle

SpecMatchTypes == InitMatchTypes /\ [][MatchTypesNext]_vars

InitObjectId ==
    CacheInit /\ GitInit /\ LockIdle /\ TraverseIdle /\ PatternIdle /\ MatchTypesIdle /\ ObjectIdInit /\ PriorityIdle /\ StaticAccessIdle

SpecObjectId == InitObjectId /\ [][ObjectIdNext]_vars

InitPriority ==
    CacheInit /\ GitInit /\ LockIdle /\ TraverseIdle /\ PatternIdle /\ MatchTypesIdle /\ ObjectIdIdle /\ PriorityInit /\ StaticAccessIdle

SpecPriority == InitPriority /\ [][PriorityNext]_vars

InitStaticAccess ==
    CacheInit /\ GitInit /\ LockIdle /\ TraverseIdle /\ PatternIdle /\ MatchTypesIdle /\ ObjectIdIdle /\ PriorityIdle /\ StaticAccessInit

SpecStaticAccess == InitStaticAccess /\ [][StaticAccessNext]_vars

====
